---- MODULE Spec2Model ----
(***************************************************************************)
(* Tsuchinoko V1.7.0 bridge worker (src/bridge/python/worker.py).          *)
(*                                                                         *)
(* The worker is a single-threaded dispatcher: main() reads one line from  *)
(* stdin, dispatches it to a handler, prints one JSON response, and reads  *)
(* the next line.  The state is the object store _SESSIONS, the iterator   *)
(* objects living in the interpreter, the source of handle ids, and the    *)
(* last line read together with what was written for it.                   *)
(*                                                                         *)
(* Python strings that the code inspects (split("."), startswith("_"),     *)
(* membership in FORBIDDEN_CALLS) are sequences of tokens: "_" and "."     *)
(* are tokens of their own, an identifier fragment is one token, so        *)
(* "builtins.eval.__call__" is                                             *)
(*   <<"builtins", ".", "eval", ".", "_", "_", "call", "_", "_">>.         *)
(***************************************************************************)
EXTENDS Integers, Sequences, FiniteSets, TLC

\* ---------------------------------------------------------------- bounds
MaxN       == 2     \* largest integer a request carries (range length, key, batch size)
MaxHandles == 2     \* handle ids a run may issue

\* ---------------------------------------------------------- Python strings
Dunder(x) == <<"_", "_", x, "_", "_">>

\* (variant: only names with two leading underscores count as private)
startswith_dunder(s) == Len(s) > 1 /\ s[1] = "_" /\ s[2] = "_"

startswith_(s) == Len(s) > 0 /\ s[1] = "_"

\* str.split("."): the parts between the "." tokens; "" splits to [""]
RECURSIVE SplitFrom(_, _, _)
SplitFrom(s, i, cur) ==
    IF i > Len(s) THEN <<cur>>
    ELSE IF s[i] = "." THEN <<cur>> \o SplitFrom(s, i + 1, <<>>)
    ELSE SplitFrom(s, i + 1, Append(cur, s[i]))

split(s) == SplitFrom(s, 1, <<>>)

\* ------------------------------------------------------------ JSON / wire
Absent == [t |-> "absent"]               \* the key is not in the request dict

NoSession == "<absent>"                  \* session_id key missing
NoReqId   == "<null>"                    \* req_id key missing: cmd.get("req_id") is None
NoCmd     == "<null>"

\* ids the uuid source hands out, in order: f"h_{uuid...}" and f"it_{uuid...}"
HTok  == <<"h_1", "h_2", "h_3", "h_4", "h_5">>
ItTok == <<"it_1", "it_2", "it_3", "it_4", "it_5">>
\* (variant: the random part of an object id is cut to nothing)
HId_prefix(k) == <<HTok[1]>>

HId(k)  == <<HTok[k]>>
ItId(k) == <<ItTok[k]>>

\* ------------------------------------------------------- Python values
\* (json.loads hands the scalars and lists of a request over as these)
PyNone       == [t |-> "none"]
PyInt(n)     == [t |-> "int", v |-> n]
PyStr(s)     == [t |-> "str", v |-> s]
PyList(xs)   == [t |-> "list", items |-> xs]
PyBool(b)    == [t |-> "bool", v |-> b]
PyFloat(h)   == [t |-> "float", v |-> h]        \* the float h / 2
PyTuple(xs)  == [t |-> "tuple", items |-> xs]
PyDict(kvs)  == [t |-> "dict", items |-> kvs]   \* <<[key, value], ...>> in insertion order
PyModule(m)  == [t |-> "module", m |-> m]
PyFunc(f)    == [t |-> "func", f |-> f]
PyRange(a, b, c) == [t |-> "range", start |-> a, stop |-> b, step |-> c]
PyIter(a)    == [t |-> "iter", a |-> a]   \* a range_iterator object, state in heap[a]
PyBound(o, m) == [t |-> "bound", self |-> o, m |-> m]
PyType(n)    == [t |-> "type", name |-> n]
PyRepeat(a)  == [t |-> "repeat", a |-> a]  \* an itertools.repeat object, state in heap[a]
PyChain(a)   == [t |-> "chain", a |-> a]   \* an itertools.chain object, state in heap[a]

\* len(range(start, stop, step)) for step >= 1
RangeLen(r) ==
    IF r.stop <= r.start THEN 0
    ELSE ((r.stop - r.start) + (r.step - 1)) \div r.step

RangeItem(r, i) == r.start + i * r.step          \* 0-based

\* type(v).__name__
TypeName(v) ==
    CASE v.t = "none"   -> "NoneType"
      [] v.t = "int"    -> "int"
      [] v.t = "str"    -> "str"
      [] v.t = "list"   -> "list"
      [] v.t = "bool"   -> "bool"
      [] v.t = "float"  -> "float"
      [] v.t = "tuple"  -> "tuple"
      [] v.t = "dict"   -> "dict"
      [] v.t = "module" -> "module"
      [] v.t = "func"   -> "builtin_function_or_method"
      [] v.t = "bound"  -> "method-wrapper"
      [] v.t = "range"  -> "range"
      [] v.t = "iter"   -> "range_iterator"
      [] v.t = "type"   -> "type"
      [] v.t = "Fraction" -> "Fraction"
      [] v.t = "repeat" -> "repeat"
      [] v.t = "chain"  -> "chain"

\* str(n) for an int, one character per element
RECURSIVE IntStr(_)
IntStr(n) ==
    LET digit == <<"0", "1", "2", "3", "4", "5", "6", "7", "8", "9">>
    IN  IF n < 0 THEN <<"-">> \o IntStr(0 - n)
        ELSE IF n < 10 THEN <<digit[n + 1]>>
        ELSE IntStr(n \div 10) \o <<digit[(n % 10) + 1]>>

\* repr(v) of the objects that leave the worker as handles, one character per
\* element; H is the heap.  A repeat object shows the item and the rounds left.
repr(H, v) ==
    CASE v.t = "range" ->
           <<"r", "a", "n", "g", "e", "(">> \o IntStr(v.start) \o <<",", " ">>
           \o IntStr(v.stop)
           \o (IF v.step = 1 THEN <<>> ELSE <<",", " ">> \o IntStr(v.step)) \o <<")">>
      [] v.t = "iter" ->
           <<"<", "r", "a", "n", "g", "e", "_", "i", "t", "e", "r", "a", "t", "o", "r",
             " ", "o", "b", "j", "e", "c", "t", " ", "a", "t", " ", "0", "x">>
           \o IntStr(v.a) \o <<">">>
      [] v.t = "Fraction" ->
           <<"F", "r", "a", "c", "t", "i", "o", "n", "(">> \o IntStr(v.v)
           \o <<",", " ", "1", ")">>
      [] v.t = "repeat" ->
           <<"r", "e", "p", "e", "a", "t", "(", "'">> \o H[v.a].r.item.v \o <<"'", ",", " ">>
           \o IntStr(H[v.a].r.times - H[v.a].pos) \o <<")">>
      [] v.t = "chain" ->
           <<"<", "i", "t", "e", "r", "t", "o", "o", "l", "s", ".", "c", "h", "a", "i", "n",
             " ", "o", "b", "j", "e", "c", "t", " ", "a", "t", " ", "0", "x">>
           \o IntStr(v.a) \o <<">">>

\* str(v) of the same objects
str(H, v) == IF v.t = "Fraction" THEN IntStr(v.v) ELSE repr(H, v)

\* ------------------------------------------------- exceptions
\* `except Exception` catches every class but these
BaseOnly == {"SystemExit", "KeyboardInterrupt", "GeneratorExit"}
IsException(e) == e \notin BaseOnly
IsImportError(e) == e \in {"ImportError", "ModuleNotFoundError"}

\* str(e) as far as the code looks into it: `"StaleHandle" in str(e)`
NoMsg == [stale |-> FALSE]

Ok(st, v)     == [exc |-> "", val |-> v, st |-> st, msg |-> NoMsg]
Raise(st, e)  == [exc |-> e, val |-> PyNone, st |-> st, msg |-> NoMsg]
RaiseMsg(st, e, m) == [exc |-> e, val |-> PyNone, st |-> st, msg |-> m]

\* `x = <expression>` followed by the statements F that use x
Bind(x, F(_)) == F(x)

\* one reflection step the interpreter executed for the request in hand
Ev(op, name) == [op |-> op, name |-> name]
Note(st, e) == [st EXCEPT !.E = @ \cup {e}]

\* ------------------------------------------------- dict keys
\* a == b for two keys: True == 1 == 1.0, tuples compare item by item
RECURSIVE PyEq(_, _)
PyEq(a, b) ==
    LET Num(x) == CASE x.t = "bool"  -> IF x.v THEN 2 ELSE 0
                    [] x.t = "int"   -> 2 * x.v
                    [] x.t = "float" -> x.v
    IN  CASE a.t \in {"bool", "int", "float"} /\ b.t \in {"bool", "int", "float"} ->
               Num(a) = Num(b)
          [] a.t = "tuple" /\ b.t = "tuple" ->
               /\ Len(a.items) = Len(b.items)
               /\ \A i \in 1..Len(a.items) : PyEq(a.items[i], b.items[i])
          [] OTHER -> a = b

\* hash(v) succeeds
RECURSIVE Hashable(_)
Hashable(v) ==
    CASE v.t \in {"list", "dict"} -> FALSE
      [] v.t = "tuple" -> \A i \in 1..Len(v.items) : Hashable(v.items[i])
      [] OTHER -> TRUE

\* d[k] = v on the pairs of a dict: an equal key keeps its place and takes the value
DictSet(kvs, k, v) ==
    IF \E i \in 1..Len(kvs) : PyEq(kvs[i].key, k)
    THEN [i \in 1..Len(kvs) |-> IF PyEq(kvs[i].key, k) THEN [kvs[i] EXCEPT !.value = v]
                                 ELSE kvs[i]]
    ELSE Append(kvs, [key |-> k, value |-> v])

\* ------------------------------------------------- the object store
EmptyMap == [x \in {} |-> PyNone]

Put(f, k, v) == [x \in (DOMAIN f) \cup {k} |-> IF x = k THEN v ELSE f[x]]
Del(f, k)    == [x \in (DOMAIN f) \ {k} |-> f[x]]

\* get_session: creates the session's entry on first use
get_session(st, session_id) ==
    IF session_id \in DOMAIN st.S THEN st
    ELSE [st EXCEPT !.S = Put(@, session_id, [objects |-> EmptyMap, modules |-> EmptyMap])]

\* the handle map of a session, empty for a session never used
Objects(S, s) == IF s \in DOMAIN S THEN S[s].objects ELSE EmptyMap

\* ------------------------------------------------- the interpreter
\* The part of the Python environment requests can reach: three importable
\* modules, their functions, range objects and their iterators.
Missing == [t |-> "missing"]

AttrOf(obj, name) ==
    CASE name = Dunder("class") -> PyType(TypeName(obj))
      [] obj = PyModule("builtins") /\ name = <<"range">> -> PyFunc("range")
      [] obj = PyModule("builtins") /\ name = <<"eval">>  -> PyFunc("eval")
      [] obj = PyModule("itertools") /\ name = <<"repeat">> -> PyType("repeat")
      [] obj = PyModule("itertools") /\ name = <<"chain">>  -> PyType("chain")
      [] obj.t = "repeat" /\ name = Dunder("iter")  -> PyBound(obj, "iter")
      [] obj.t = "repeat" /\ name = Dunder("next")  -> PyBound(obj, "next")
      [] obj = PyModule("sys") /\ name = <<"exit">>       -> PyFunc("exit")
      [] obj = PyModule("fractions") /\ name = <<"Fraction">> -> PyFunc("Fraction")
      [] obj.t \in {"func", "bound"} /\ name = Dunder("call") -> PyBound(obj, "call")
      [] obj.t = "range" /\ name = <<"stop">>       -> PyInt(obj.stop)
      [] obj.t = "range" /\ name = Dunder("iter")   -> PyBound(obj, "iter")
      [] obj.t = "range" /\ name = Dunder("len")    -> PyBound(obj, "len")
      [] obj.t = "iter"  /\ name = Dunder("iter")   -> PyBound(obj, "iter")
      [] obj.t = "iter"  /\ name = Dunder("next")   -> PyBound(obj, "next")
      [] OTHER -> Missing

\* getattr(obj, name)
getattr(st, obj, name) ==
    LET st1 == Note(st, Ev("getattr", name))
    IN  Bind(AttrOf(obj, name), LAMBDA v :
          IF v = Missing THEN Raise(st1, "AttributeError") ELSE Ok(st1, v))

\* hasattr(obj, name): a getattr that swallows AttributeError
hasattr(st, obj, name) ==
    [has |-> AttrOf(obj, name) # Missing, st |-> Note(st, Ev("getattr", name))]

\* importlib.import_module(name)
import_module(st, name) ==
    LET st1 == Note(st, Ev("import", name))
    IN  CASE name = <<"builtins">>  -> Ok(st1, PyModule("builtins"))
          [] name = <<"sys">>       -> Ok(st1, PyModule("sys"))
          [] name = <<"fractions">> -> Ok(st1, PyModule("fractions"))
          [] name = <<"itertools">> -> Ok(st1, PyModule("itertools"))
          [] name = <<>>            -> Raise(st1, "ValueError")
          [] OTHER                  -> Raise(st1, "ModuleNotFoundError")

\* len of what an iterator in the heap runs over, and its i-th item (0-based)
SourceLen(r) ==
    CASE r.t = "range" -> RangeLen(r)
      [] r.t = "chain" -> Len(r.items)
      [] OTHER         -> r.times
SourceItem(r, i) ==
    CASE r.t = "range" -> PyInt(RangeItem(r, i))
      [] r.t = "chain" -> r.items[i + 1]
      [] OTHER         -> r.item

\* iter(obj)
iter(st, obj) ==
    LET st1 == Note(st, Ev("iter", <<>>))
    IN  CASE obj.t = "range" ->
               Ok([st1 EXCEPT !.H = Append(@, [r |-> obj, pos |-> 0])],
                  PyIter(Len(st1.H) + 1))
          [] obj.t \in {"iter", "repeat", "chain"} -> Ok(st1, obj)
          [] OTHER -> Raise(st1, "TypeError")

\* next(it) on a range_iterator, a repeat or a chain object; a chain reaches
\* an argument that is not iterable after the items of the arguments before it,
\* raises TypeError there, and is exhausted from then on
next(st, it) ==
    IF it.t \notin {"iter", "repeat", "chain"} THEN Raise(st, "TypeError")
    ELSE LET c == st.H[it.a]
         IN  CASE c.pos < SourceLen(c.r) ->
                    Ok([st EXCEPT !.H[it.a].pos = @ + 1], SourceItem(c.r, c.pos))
               [] c.pos = SourceLen(c.r) /\ c.r.t = "chain" /\ c.r.bad ->
                    Raise([st EXCEPT !.H[it.a].pos = @ + 1], "TypeError")
               [] OTHER -> Raise(st, "StopIteration")

\* int(val)
int(st, val) ==
    CASE val.t = "int"      -> Ok(st, val)
      [] val.t = "Fraction" -> Ok(st, PyInt(val.v))
      [] OTHER              -> Raise(st, "TypeError")

\* f(*args, **kwargs) for a builtin function
CallFunc(st, f, args, kwargs) ==
    LET st1 == Note(st, Ev("call", <<f>>))
        one == kwargs = <<>> /\ Len(args) = 1
    IN  CASE f = "exit" -> Raise(st1, "SystemExit")
          [] f = "eval" -> IF one /\ args[1].t = "str" THEN Ok(st1, PyInt(0))
                           ELSE Raise(st1, "TypeError")
          [] f = "range" -> IF one /\ args[1].t = "int"
                            THEN Ok(st1, PyRange(0, args[1].v, 1))
                            ELSE Raise(st1, "TypeError")
          [] f = "Fraction" -> IF one /\ args[1].t = "int"
                               THEN Ok(st1, [t |-> "Fraction", v |-> args[1].v])
                               ELSE Raise(st1, "TypeError")

\* the items of an iterable argument of chain
ItemsOf(v) ==
    IF v.t = "range" THEN [i \in 1..RangeLen(v) |-> PyInt(RangeItem(v, i - 1))]
    ELSE v.items

Iterable(v) == v.t \in {"list", "tuple", "range"}

\* what chain(*args) yields before it reaches an argument that is not iterable
RECURSIVE ChainItems(_)
ChainItems(args) ==
    IF args = <<>> \/ ~Iterable(Head(args)) THEN <<>>
    ELSE ItemsOf(Head(args)) \o ChainItems(Tail(args))

\* cls(*args, **kwargs) for the classes requests can reach; repeat in its
\* two-argument form repeat(object, times), chain over lists, tuples, ranges
\* and objects that are not iterable
Construct(st, cls, args, kwargs) ==
    LET st1 == Note(st, Ev("call", <<cls>>))
    IN  CASE cls = "repeat" /\ kwargs = <<>> /\ Len(args) = 2 /\ args[2].t = "int" ->
               Ok([st1 EXCEPT !.H = Append(@, [r |-> [t |-> "repeat", item |-> args[1],
                                                       times |-> IF args[2].v < 0 THEN 0
                                                                 ELSE args[2].v],
                                               pos |-> 0])],
                  PyRepeat(Len(st1.H) + 1))
          [] cls = "chain" /\ kwargs = <<>>
               /\ \A i \in DOMAIN args :
                     args[i].t \in {"list", "tuple", "range", "none", "int", "bool", "float"} ->
               Ok([st1 EXCEPT !.H = Append(@, [r |-> [t |-> "chain", items |-> ChainItems(args),
                                                      bad |-> \E i \in DOMAIN args :
                                                                 ~Iterable(args[i])],
                                               pos |-> 0])],
                  PyChain(Len(st1.H) + 1))
          [] cls = "Fraction" ->
               IF kwargs = <<>> /\ args = <<>> THEN Ok(st1, [t |-> "Fraction", v |-> 0])
               ELSE CallFunc(st, "Fraction", args, kwargs)
          [] cls \in {"range", "range_iterator"} \/ (cls = "repeat" /\ args = <<>>) ->
               Raise(st1, "TypeError")

\* the function under a chain of __call__ wrappers
RECURSIVE Unwrap(_)
Unwrap(f) == IF f.t = "bound" /\ f.m = "call" THEN Unwrap(f.self) ELSE f

\* f(*args, **kwargs)
Call(st, fn, args, kwargs) ==
    LET f == Unwrap(fn)
        none == kwargs = <<>> /\ args = <<>>
    IN  CASE f.t = "func" -> CallFunc(st, f.f, args, kwargs)
          [] f.t = "type" -> Construct(st, f.name, args, kwargs)
          [] f.t = "bound" ->
               LET st1 == Note(st, Ev("call", Dunder(f.m)))
               IN  IF ~none THEN Raise(st1, "TypeError")
                   ELSE (CASE f.m = "iter" -> iter(st1, f.self)
                           [] f.m = "next" -> next(st1, f.self)
                           [] f.m = "len"  -> Ok(st1, PyInt(RangeLen(f.self))))
          [] OTHER -> Raise(Note(st, Ev("call", <<TypeName(f)>>)), "TypeError")

\* slice(start, stop, step) applied to a range (bounds None or >= 0, step >= 1)
SliceRange(r, sl) ==
    LET n  == RangeLen(r)
        lo == IF sl.start.t = "none" THEN 0 ELSE IF sl.start.v > n THEN n ELSE sl.start.v
        hi == IF sl.stop.t = "none" THEN n ELSE IF sl.stop.v > n THEN n ELSE sl.stop.v
        k  == IF sl.step.t = "none" THEN 1 ELSE sl.step.v
    IN  PyRange(r.start + lo * r.step, r.start + hi * r.step, r.step * k)

PySlice(a, b, c) == [t |-> "slice", start |-> a, stop |-> b, step |-> c]

\* obj[key]
getitem(st, obj, key) ==
    LET st1 == Note(st, Ev("index", <<>>))
    IN  CASE obj.t = "range" /\ key.t = "int" ->
               IF key.v >= 0 /\ key.v < RangeLen(obj)
               THEN Ok(st1, PyInt(RangeItem(obj, key.v)))
               ELSE Raise(st1, "IndexError")
          [] obj.t = "range" /\ key.t = "slice" ->
               IF \A b \in {key.start, key.stop, key.step} : b.t \in {"none", "int"}
               THEN IF key.step.t = "int" /\ key.step.v = 0
                    THEN Raise(st1, "ValueError")
                    ELSE Ok(st1, SliceRange(obj, key))
               ELSE Raise(st1, "TypeError")
          [] OTHER -> Raise(st1, "TypeError")

\* ------------------------------------------------- security policy
FORBIDDEN_CALLS == {<<"eval">>, <<"exec">>, <<"globals">>, <<"locals">>}

is_forbidden_name(name) == name \in FORBIDDEN_CALLS

is_forbidden_target(target_str) ==
    LET parts == split(target_str)
        tail  == IF Len(parts) > 0 THEN parts[Len(parts)] ELSE target_str
    IN  is_forbidden_name(tail)

\* `if x:` for the arguments of make_response: None and the empty dict are false
Truthy(x) == x # PyNone /\ x # PyDict(<<>>)

\* ------------------------------------------------- protocol helpers
\* (variant: one shape for both kinds, every key always there)
make_response_full(req_id, value, meta, error, op_info) ==
    IF error # PyNone
    THEN [kind |-> "error", req_id |-> req_id, value |-> value, meta |-> meta,
          error |-> IF op_info # PyNone THEN [error EXCEPT !.op = op_info] ELSE error]
    ELSE [kind |-> "ok", req_id |-> req_id, value |-> value, meta |-> meta,
          error |-> PyNone]

\* (variant: op is set from op_info whenever op_info is not None)
make_response_op(req_id, value, meta, error, op_info) ==
    IF Truthy(error)
    THEN [kind |-> "error", req_id |-> req_id,
          error |-> IF op_info # PyNone THEN [error EXCEPT !.op = op_info] ELSE error]
    ELSE [kind |-> "ok", req_id |-> req_id, value |-> value, meta |-> meta]

make_response(req_id, value, meta, error, op_info) ==
    IF Truthy(error)
    THEN [kind |-> "error", req_id |-> req_id,
          error |-> IF Truthy(op_info) THEN [error EXCEPT !.op = op_info] ELSE error]
    ELSE [kind |-> "ok", req_id |-> req_id, value |-> value, meta |-> meta]

\* an error dict; py_type "" and op PyNone stand for a key that is not there
Err(code, py_type, message) ==
    [code |-> code, py_type |-> py_type, message |-> message, op |-> PyNone]

ReprLimit == 200
ReprKeep == 197

\* `if len(s) > 200: s = s[:197] + "..."`
Truncated(s) ==
    IF Len(s) > ReprLimit THEN SubSeq(s, 1, ReprKeep) \o <<".", ".", ".">> ELSE s

\* encode_value.  None of the objects of this model has an item() method, so
\* the scalar-unwrapping branch never applies to them.
RECURSIVE encode_value(_, _, _)
RECURSIVE encode_items(_, _, _)
RECURSIVE encode_pairs(_, _, _)

\* (variant: the object of a handle is not put into the store)
encode_value_unstored(st, v, session_id) ==
    CASE v.t \in {"none", "bool", "int", "float", "str"} ->
           [st |-> st, val |-> [kind |-> "value", value |-> v]]
      [] v.t \in {"list", "tuple"} ->
           LET r == encode_items(st, v.items, session_id)
           IN  [st |-> r.st, val |-> [kind |-> v.t, items |-> r.val]]
      [] v.t = "dict" ->
           LET r == encode_pairs(st, v.items, session_id)
           IN  [st |-> r.st, val |-> [kind |-> "dict", items |-> r.val]]
      [] OTHER ->
           LET obj_id == HId(st.U + 1)
               st1 == get_session([st EXCEPT !.U = @ + 1], session_id)
           IN  [st |-> st1,
                val |-> [kind |-> "handle", id |-> obj_id, type |-> TypeName(v),
                         repr |-> Truncated(repr(st.H, v)),
                         str |-> Truncated(str(st.H, v)),
                         session_id |-> session_id]]

\* (variant: lists and tuples share one kind)
encode_value_list(st, v, session_id) ==
    CASE v.t \in {"none", "bool", "int", "float", "str"} ->
           [st |-> st, val |-> [kind |-> "value", value |-> v]]
      [] v.t \in {"list", "tuple"} ->
           LET r == encode_items(st, v.items, session_id)
           IN  [st |-> r.st, val |-> [kind |-> "list", items |-> r.val]]
      [] v.t = "dict" ->
           LET r == encode_pairs(st, v.items, session_id)
           IN  [st |-> r.st, val |-> [kind |-> "dict", items |-> r.val]]
      [] OTHER ->
           LET obj_id == HId(st.U + 1)
               st1 == get_session([st EXCEPT !.U = @ + 1], session_id)
               st2 == [st1 EXCEPT !.S[session_id].objects = Put(@, obj_id, v)]
           IN  [st |-> st2,
                val |-> [kind |-> "handle", id |-> obj_id, type |-> TypeName(v),
                         repr |-> Truncated(repr(st.H, v)),
                         str |-> Truncated(str(st.H, v)),
                         session_id |-> session_id]]

encode_value(st, v, session_id) ==
    CASE v.t \in {"none", "bool", "int", "float", "str"} ->
           [st |-> st, val |-> [kind |-> "value", value |-> v]]
      [] v.t \in {"list", "tuple"} ->
           LET r == encode_items(st, v.items, session_id)
           IN  [st |-> r.st, val |-> [kind |-> v.t, items |-> r.val]]
      [] v.t = "dict" ->
           LET r == encode_pairs(st, v.items, session_id)
           IN  [st |-> r.st, val |-> [kind |-> "dict", items |-> r.val]]
      [] OTHER ->
           LET obj_id == HId(st.U + 1)
               st1 == get_session([st EXCEPT !.U = @ + 1], session_id)
               st2 == [st1 EXCEPT !.S[session_id].objects = Put(@, obj_id, v)]
           IN  [st |-> st2,
                val |-> [kind |-> "handle", id |-> obj_id, type |-> TypeName(v),
                         repr |-> Truncated(repr(st.H, v)),
                         str |-> Truncated(str(st.H, v)),
                         session_id |-> session_id]]

encode_items(st, xs, session_id) ==
    IF xs = <<>> THEN [st |-> st, val |-> <<>>]
    ELSE LET h == encode_value(st, Head(xs), session_id)
             t == encode_items(h.st, Tail(xs), session_id)
         IN  [st |-> t.st, val |-> <<h.val>> \o t.val]

\* [{"key": encode_value(k), "value": encode_value(val)} for k, val in v.items()]
encode_pairs(st, kvs, session_id) ==
    IF kvs = <<>> THEN [st |-> st, val |-> <<>>]
    ELSE LET k == encode_value(st, Head(kvs).key, session_id)
             v == encode_value(k.st, Head(kvs).value, session_id)
             t == encode_pairs(v.st, Tail(kvs), session_id)
         IN  [st |-> t.st, val |-> <<[key |-> k.val, value |-> v.val]>> \o t.val]

\* decode_value.  The session_id a handle value carries is read and ignored.
RECURSIVE decode_value(_, _, _)
RECURSIVE decode_items(_, _, _)
RECURSIVE decode_pairs(_, _, _, _)
\* (variant: a handle is looked up in the session its own session_id field names)
decode_value_strict(st, tnk_val, session_id) ==
    CASE tnk_val.kind = "value" -> Ok(st, tnk_val.value)
      [] tnk_val.kind = "handle" ->
           Bind(get_session(st, IF tnk_val.session_id \in {NoSession, "", session_id}
                                THEN session_id ELSE tnk_val.session_id), LAMBDA st1 :
             LET sid == IF tnk_val.session_id \in {NoSession, "", session_id}
                        THEN session_id ELSE tnk_val.session_id
             IN  IF tnk_val.id \notin DOMAIN st1.S[sid].objects
                 THEN RaiseMsg(st1, "KeyError", [stale |-> TRUE])
                 ELSE Ok(st1, st1.S[sid].objects[tnk_val.id]))
      [] tnk_val.kind = "list" ->
           Bind(decode_items(st, tnk_val.items, session_id), LAMBDA r :
             IF r.exc # "" THEN r ELSE Ok(r.st, PyList(r.val)))
      [] tnk_val.kind = "tuple" ->
           Bind(decode_items(st, tnk_val.items, session_id), LAMBDA r :
             IF r.exc # "" THEN r ELSE Ok(r.st, PyTuple(r.val)))
      [] tnk_val.kind = "dict" ->
           Bind(decode_pairs(st, tnk_val.items, session_id, <<>>), LAMBDA r :
             IF r.exc # "" THEN r ELSE Ok(r.st, PyDict(r.val)))
      [] OTHER -> Raise(st, "ValueError")

decode_value(st, tnk_val, session_id) ==
    CASE tnk_val.kind = "value" -> Ok(st, tnk_val.value)
      \* h_sid = tnk_val.get("session_id") is read, and passed over when it differs
      [] tnk_val.kind = "handle" ->
           Bind(get_session(st, session_id), LAMBDA st1 :
             IF tnk_val.id \notin DOMAIN st1.S[session_id].objects
             THEN RaiseMsg(st1, "KeyError", [stale |-> TRUE])
             ELSE Ok(st1, st1.S[session_id].objects[tnk_val.id]))
      [] tnk_val.kind = "list" ->
           Bind(decode_items(st, tnk_val.items, session_id), LAMBDA r :
             IF r.exc # "" THEN r ELSE Ok(r.st, PyList(r.val)))
      [] tnk_val.kind = "tuple" ->
           Bind(decode_items(st, tnk_val.items, session_id), LAMBDA r :
             IF r.exc # "" THEN r ELSE Ok(r.st, PyTuple(r.val)))
      [] tnk_val.kind = "dict" ->
           Bind(decode_pairs(st, tnk_val.items, session_id, <<>>), LAMBDA r :
             IF r.exc # "" THEN r ELSE Ok(r.st, PyDict(r.val)))
      [] OTHER -> Raise(st, "ValueError")

\* [decode_value(a, session_id) for a in xs]
decode_items(st, xs, session_id) ==
    IF xs = <<>> THEN Ok(st, <<>>)
    ELSE Bind(decode_value(st, Head(xs), session_id), LAMBDA h :
           IF h.exc # "" THEN h
           ELSE Bind(decode_items(h.st, Tail(xs), session_id), LAMBDA t :
                  IF t.exc # "" THEN t ELSE Ok(t.st, <<h.val>> \o t.val)))

\* {decode_value(x["key"]): decode_value(x["value"]) for x in items}, kvs the dict so far
decode_pairs(st, xs, session_id, kvs) ==
    IF xs = <<>> THEN Ok(st, kvs)
    ELSE Bind(decode_value(st, Head(xs).key, session_id), LAMBDA k :
           IF k.exc # "" THEN k
           ELSE Bind(decode_value(k.st, Head(xs).value, session_id), LAMBDA v :
                  IF v.exc # "" THEN v
                  ELSE IF ~Hashable(k.val) THEN Raise(v.st, "TypeError")
                  ELSE decode_pairs(v.st, Tail(xs), session_id, DictSet(kvs, k.val, v.val))))

\* ------------------------------------------------- target resolution
\* the getattr chain of resolve_callable over parts[i..]
RECURSIVE Traverse(_, _, _, _)
Traverse(st, current_obj, parts, i) ==
    IF i > Len(parts) THEN Ok(st, current_obj)
    ELSE Bind(getattr(st, current_obj, parts[i]), LAMBDA g :
           IF g.exc # "" THEN g ELSE Traverse(g.st, g.val, parts, i + 1))

\* (variant: a first component that does not import is not looked up in builtins)
resolve_callable_import_only(st, target_str, session_id) ==
    LET parts == split(target_str)
        module_name == parts[1]
    IN  Bind(import_module(get_session(st, session_id), module_name), LAMBDA m :
          IF m.exc = "" THEN Traverse(m.st, m.val, parts, 2) ELSE m)

resolve_callable(st, target_str, session_id) ==
    LET parts == split(target_str)
        module_name == parts[1]
        builtins == PyModule("builtins")
    IN  Bind(import_module(get_session(st, session_id), module_name), LAMBDA m :
          IF m.exc = "" THEN Traverse(m.st, m.val, parts, 2)
          ELSE IF ~IsImportError(m.exc) THEN m
          ELSE Bind(hasattr(m.st, builtins, module_name), LAMBDA b :
                 IF ~b.has THEN Raise(b.st, m.exc)
                 ELSE Bind(getattr(b.st, builtins, module_name), LAMBDA first :
                        Traverse(first.st, first.val, parts, 2))))

\* repr(target) contains "StaleHandle" (a non-string target can spell it)
MentionsStale(target) ==
    target.t = "list" /\ \E i \in 1..Len(target.items) : target.items[i] = PyStr(<<"StaleHandle">>)

\* (variant: one store for all sessions, the id looked up wherever it is held)
resolve_target_any(st, target, session_id) ==
    IF target.t = "module" THEN resolve_callable(st, target.module, session_id)
    ELSE IF target.t # "str"
    THEN RaiseMsg(st, "ValueError", [stale |-> MentionsStale(target)])
    ELSE LET st1 == get_session(st, session_id)
             holders == {s \in DOMAIN st1.S : target.v \in DOMAIN st1.S[s].objects}
         IN  IF holders = {}
             THEN RaiseMsg(st1, "ValueError", [stale |-> TRUE])
             ELSE Ok(st1, st1.S[CHOOSE s \in holders : TRUE].objects[target.v])

resolve_target(st, target, session_id) ==
    IF target.t = "module" THEN resolve_callable(st, target.module, session_id)
    ELSE IF target.t # "str"
    THEN RaiseMsg(st, "ValueError", [stale |-> MentionsStale(target)])
    ELSE LET st1 == get_session(st, session_id)
         IN  IF target.v \notin DOMAIN st1.S[session_id].objects
             THEN RaiseMsg(st1, "ValueError", [stale |-> TRUE])
             ELSE Ok(st1, st1.S[session_id].objects[target.v])

\* ------------------------------------------------- command handlers
\* A handler returns Ok(st, response) or raises; whatever it raises goes to main.
ReqId(cmd) == cmd.req_id                               \* cmd.get("req_id")

Items(x) == IF x = Absent THEN <<>> ELSE x.items        \* cmd.get("kwargs") or {}

PyExcResp(cmd, r, op_info) ==
    make_response(ReqId(cmd), PyNone, PyNone, Err("PythonException", r.exc, ""), op_info)

\* try: result = <r>; return ok(encode_value(result)) / except Exception: PythonException
Returned(cmd, r, op_info) ==
    IF r.exc = ""
    THEN LET e == encode_value(r.st, r.val, cmd.session_id)
         IN  Ok(e.st, make_response(ReqId(cmd), e.val, PyNone, PyNone, PyNone))
    ELSE IF IsException(r.exc) THEN Ok(r.st, PyExcResp(cmd, r, op_info))
    ELSE r

\* try: obj = resolve_target(...) / except ValueError: StaleHandle or ProtocolError
Unresolved(cmd, t, op_info) ==
    IF t.exc = "ValueError"
    THEN Ok(t.st, make_response(ReqId(cmd), PyNone, PyNone,
                                Err(IF t.msg.stale THEN "StaleHandle" ELSE "ProtocolError",
                                    "", ""), op_info))
    ELSE t

\* args and kwargs decoded in that order
DecodeArgs(st, cmd) ==
    Bind(decode_items(st, cmd.args.items, cmd.session_id), LAMBDA a :
      IF a.exc # "" THEN a
      ELSE Bind(decode_items(a.st, Items(cmd.kwargs), cmd.session_id), LAMBDA k :
             IF k.exc # "" THEN k
             ELSE Ok(k.st, [args |-> a.val, kwargs |-> k.val])))

handle_call_function(st, cmd) ==
    IF cmd.session_id = NoSession \/ cmd.target = Absent \/ cmd.args = Absent
    THEN Raise(st, "KeyError")
    ELSE
    LET op_info == [cmd |-> "call_function", target |-> cmd.target,
                    args |-> cmd.args, kwargs |-> Items(cmd.kwargs)]
    IN  Bind(DecodeArgs(st, cmd), LAMBDA d :
          IF d.exc # "" THEN d
          ELSE IF cmd.target.t # "str" THEN Raise(d.st, "AttributeError")
          ELSE IF is_forbidden_target(cmd.target.v)
          THEN Ok(d.st, make_response(ReqId(cmd), PyNone, PyNone,
                                      Err("SecurityViolation", "", ""), op_info))
          ELSE Bind(resolve_callable(d.st, cmd.target.v, cmd.session_id), LAMBDA f :
                 IF IsImportError(f.exc)
                 THEN Ok(f.st, make_response(ReqId(cmd), PyNone, PyNone,
                             Err("PythonException", "ImportError", ""), op_info))
                 ELSE IF f.exc # "" THEN Ok(f.st, PyExcResp(cmd, f, op_info))
                 ELSE Returned(cmd, Call(f.st, f.val, d.val.args, d.val.kwargs),
                               op_info)))

handle_call_method(st, cmd) ==
    IF cmd.session_id = NoSession \/ cmd.target = Absent \/ cmd.method = Absent
       \/ cmd.args = Absent
    THEN Raise(st, "KeyError")
    ELSE
    LET method_name == cmd.method.v
        op_info == [cmd |-> "call_method", target |-> cmd.target, method |-> cmd.method,
                    args |-> cmd.args, kwargs |-> Items(cmd.kwargs)]
    IN  Bind(DecodeArgs(st, cmd), LAMBDA d :
          IF d.exc # "" THEN d
          ELSE IF is_forbidden_name(method_name)
          THEN Ok(d.st, make_response(ReqId(cmd), PyNone, PyNone,
                                      Err("SecurityViolation", "", ""), op_info))
          ELSE Bind(resolve_target(d.st, cmd.target, cmd.session_id), LAMBDA t :
                 IF t.exc # "" THEN Unresolved(cmd, t, op_info)
                 ELSE Bind(hasattr(t.st, t.val, method_name), LAMBDA h :
                        IF ~h.has
                        THEN Ok(h.st, make_response(ReqId(cmd), PyNone, PyNone,
                                 Err("PythonException", "AttributeError", ""), op_info))
                        ELSE Bind(getattr(h.st, t.val, method_name), LAMBDA func :
                               Returned(cmd, Call(func.st, func.val, d.val.args,
                                                  d.val.kwargs), op_info)))))

handle_get_attribute(st, cmd) ==
    IF cmd.session_id = NoSession \/ cmd.target = Absent \/ cmd.name = Absent
    THEN Raise(st, "KeyError")
    ELSE
    LET attr_name == cmd.name.v
        op_info == [cmd |-> "get_attribute", target |-> cmd.target, name |-> cmd.name]
    IN  IF startswith_(attr_name) \/ is_forbidden_name(attr_name)
        THEN Ok(st, make_response(ReqId(cmd), PyNone, PyNone,
                                  Err("SecurityViolation", "", ""), op_info))
        ELSE Bind(resolve_target(st, cmd.target, cmd.session_id), LAMBDA t :
               IF t.exc # "" THEN Unresolved(cmd, t, op_info)
               ELSE Returned(cmd, getattr(t.st, t.val, attr_name), op_info))

handle_get_item(st, cmd) ==
    IF cmd.session_id = NoSession \/ cmd.target = Absent \/ cmd.key = Absent
    THEN Raise(st, "KeyError")
    ELSE
    LET op_info == [cmd |-> "get_item", target |-> cmd.target, key |-> cmd.key]
    IN  Bind(decode_value(st, cmd.key, cmd.session_id), LAMBDA key :
          IF key.exc # "" THEN key
          ELSE Bind(resolve_target(key.st, cmd.target, cmd.session_id), LAMBDA t :
                 IF t.exc # "" THEN Unresolved(cmd, t, op_info)
                 ELSE Returned(cmd, getitem(t.st, t.val, key.val), op_info)))

\* `target_id in session["objects"]`: a dict or list target is unhashable
Unhashable(target) == target.t \in {"module", "list"}
InObjects(st, target, session_id) ==
    target.t = "str" /\ target.v \in DOMAIN st.S[session_id].objects

StaleResp(cmd, op_info) ==
    make_response(ReqId(cmd), PyNone, PyNone, Err("StaleHandle", "", ""), op_info)

\* decode_slice_arg, the closure of handle_slice
\* (variant: a handle has to hold an int, as in the prototype worker)
decode_slice_arg_strict(st, arg, session_id) ==
    CASE arg.kind = "value" -> Ok(st, arg.value)
      [] arg.kind = "handle" ->
           Bind(decode_value(st, arg, session_id), LAMBDA val :
             IF val.exc # "" THEN val
             ELSE IF val.val.t = "int" THEN val ELSE Raise(val.st, "TypeError"))
      [] OTHER -> Raise(st, "ValueError")

decode_slice_arg(st, arg, session_id) ==
    CASE arg.kind = "value" -> Ok(st, arg.value)
      [] arg.kind = "handle" ->
           Bind(decode_value(st, arg, session_id), LAMBDA val :
             IF val.exc # "" THEN val ELSE int(val.st, val.val))
      [] OTHER -> Raise(st, "ValueError")

\* the three bounds decoded in order inside one try: the first failure ends it
DecodeBounds(st, cmd) ==
    Bind(decode_slice_arg(st, cmd.start, cmd.session_id), LAMBDA start :
      IF start.exc # "" THEN start
      ELSE Bind(decode_slice_arg(start.st, cmd.stop, cmd.session_id), LAMBDA stop :
             IF stop.exc # "" THEN stop
             ELSE Bind(decode_slice_arg(stop.st, cmd.step, cmd.session_id), LAMBDA step :
                    IF step.exc # "" THEN step
                    ELSE Ok(step.st, PySlice(start.val, stop.val, step.val)))))

handle_slice(st, cmd) ==
    IF cmd.session_id = NoSession \/ cmd.target = Absent \/ cmd.start = Absent
       \/ cmd.stop = Absent \/ cmd.step = Absent
    THEN Raise(st, "KeyError")
    ELSE
    LET op_info == [cmd |-> "slice", target |-> cmd.target, start |-> cmd.start,
                    stop |-> cmd.stop, step |-> cmd.step]
    IN  Bind(DecodeBounds(st, cmd), LAMBDA sl :
          IF sl.exc # ""
          THEN Ok(sl.st, make_response(ReqId(cmd), PyNone, PyNone,
                                       Err("TypeMismatch", "", ""), op_info))
          ELSE IF PyEq(sl.val.step, PyInt(0))
          THEN Ok(sl.st, make_response(ReqId(cmd), PyNone, PyNone,
                     Err("PythonException", "ValueError", "slice step cannot be zero"),
                     op_info))
          ELSE Bind(get_session(sl.st, cmd.session_id), LAMBDA st1 :
                 IF Unhashable(cmd.target) THEN Raise(st1, "TypeError")
                 ELSE IF ~InObjects(st1, cmd.target, cmd.session_id)
                 THEN Ok(st1, StaleResp(cmd, op_info))
                 ELSE Returned(cmd,
                        getitem(st1, st1.S[cmd.session_id].objects[cmd.target.v], sl.val),
                        op_info)))

\* (variant: an iterator that is already held is answered with the id it is held under)
handle_iter_reuse(st, cmd) ==
    IF cmd.session_id = NoSession \/ cmd.target = Absent THEN Raise(st, "KeyError")
    ELSE
    LET op_info == [cmd |-> "iter", target |-> cmd.target]
    IN  Bind(get_session(st, cmd.session_id), LAMBDA st1 :
          IF Unhashable(cmd.target) THEN Raise(st1, "TypeError")
          ELSE IF ~InObjects(st1, cmd.target, cmd.session_id)
          THEN Ok(st1, StaleResp(cmd, op_info))
          ELSE Bind(iter(st1, st1.S[cmd.session_id].objects[cmd.target.v]), LAMBDA it :
                 IF it.exc # "" THEN Ok(it.st, PyExcResp(cmd, it, op_info))
                 ELSE LET held == {k \in DOMAIN it.st.S[cmd.session_id].objects :
                                      it.st.S[cmd.session_id].objects[k] = it.val}
                          it_id == IF held # {} THEN CHOOSE k \in held : TRUE
                                   ELSE ItId(it.st.U + 1)
                          st2 == [it.st EXCEPT !.U = @ + 1,
                                      !.S[cmd.session_id].objects = Put(@, it_id, it.val)]
                      IN  Ok(st2, make_response(ReqId(cmd),
                                [kind |-> "handle", id |-> it_id, type |-> TypeName(it.val),
                                 repr |-> repr(it.st.H, it.val),
                                 str |-> str(it.st.H, it.val),
                                 session_id |-> cmd.session_id],
                                PyNone, PyNone, PyNone))))

handle_iter(st, cmd) ==
    IF cmd.session_id = NoSession \/ cmd.target = Absent THEN Raise(st, "KeyError")
    ELSE
    LET op_info == [cmd |-> "iter", target |-> cmd.target]
    IN  Bind(get_session(st, cmd.session_id), LAMBDA st1 :
          IF Unhashable(cmd.target) THEN Raise(st1, "TypeError")
          ELSE IF ~InObjects(st1, cmd.target, cmd.session_id)
          THEN Ok(st1, StaleResp(cmd, op_info))
          ELSE Bind(iter(st1, st1.S[cmd.session_id].objects[cmd.target.v]), LAMBDA it :
                 IF it.exc # "" THEN Ok(it.st, PyExcResp(cmd, it, op_info))
                 ELSE LET it_id == ItId(it.st.U + 1)
                          st2 == [it.st EXCEPT !.U = @ + 1,
                                      !.S[cmd.session_id].objects = Put(@, it_id, it.val)]
                      IN  Ok(st2, make_response(ReqId(cmd),
                                [kind |-> "handle", id |-> it_id, type |-> TypeName(it.val),
                                 repr |-> repr(it.st.H, it.val),
                                 str |-> str(it.st.H, it.val),
                                 session_id |-> cmd.session_id],
                                PyNone, PyNone, PyNone))))

DefaultBatch == 1000

\* (variant: a full batch is reported as the last one)
RECURSIVE Batch_eager(_, _, _, _, _)
Batch_eager(st, it, k, items, session_id) ==
    IF k <= 0 THEN [exc |-> "", items |-> items, done |-> items # <<>>, st |-> st]
    ELSE LET item == next(st, it)
         IN  IF item.exc = "StopIteration"
             THEN [exc |-> "", items |-> items, done |-> TRUE, st |-> item.st]
             ELSE IF item.exc # ""
             THEN [exc |-> item.exc, items |-> items, done |-> FALSE, st |-> item.st]
             ELSE LET e == encode_value(item.st, item.val, session_id)
                  IN  Batch_eager(e.st, it, k - 1, Append(items, e.val), session_id)

\* (variant: the loop makes one round too many)
RECURSIVE Batch_over(_, _, _, _, _)
Batch_over(st, it, k, items, session_id) ==
    IF k < 0 THEN [exc |-> "", items |-> items, done |-> FALSE, st |-> st]
    ELSE LET item == next(st, it)
         IN  IF item.exc = "StopIteration"
             THEN [exc |-> "", items |-> items, done |-> TRUE, st |-> item.st]
             ELSE IF item.exc # ""
             THEN [exc |-> item.exc, items |-> items, done |-> FALSE, st |-> item.st]
             ELSE LET e == encode_value(item.st, item.val, session_id)
                  IN  Batch_over(e.st, it, k - 1, Append(items, e.val), session_id)

\* (variant: the end of the iterator is not reported)
RECURSIVE Batch_undone(_, _, _, _, _)
Batch_undone(st, it, k, items, session_id) ==
    IF k <= 0 THEN [exc |-> "", items |-> items, done |-> FALSE, st |-> st]
    ELSE LET item == next(st, it)
         IN  IF item.exc = "StopIteration"
             THEN [exc |-> "", items |-> items, done |-> FALSE, st |-> item.st]
             ELSE IF item.exc # ""
             THEN [exc |-> item.exc, items |-> items, done |-> FALSE, st |-> item.st]
             ELSE LET e == encode_value(item.st, item.val, session_id)
                  IN  Batch_undone(e.st, it, k - 1, Append(items, e.val), session_id)

\* the loop `for _ in range(batch_size): item = next(it); items.append(encode_value(item))`
RECURSIVE Batch(_, _, _, _, _)
Batch(st, it, k, items, session_id) ==
    IF k <= 0 THEN [exc |-> "", items |-> items, done |-> FALSE, st |-> st]
    ELSE LET item == next(st, it)
         IN  IF item.exc = "StopIteration"
             THEN [exc |-> "", items |-> items, done |-> TRUE, st |-> item.st]
             ELSE IF item.exc # ""
             THEN [exc |-> item.exc, items |-> items, done |-> FALSE, st |-> item.st]
             ELSE LET e == encode_value(item.st, item.val, session_id)
                  IN  Batch(e.st, it, k - 1, Append(items, e.val), session_id)

\* (variant: an exhausted iterator is released with the response that reports done)
handle_iter_next_batch_release(st, cmd) ==
    IF cmd.session_id = NoSession \/ cmd.target = Absent THEN Raise(st, "KeyError")
    ELSE
    LET batch_size == IF cmd.batch_size = Absent THEN PyInt(DefaultBatch) ELSE cmd.batch_size
        op_info == [cmd |-> "iter_next_batch", target |-> cmd.target,
                    batch_size |-> batch_size]
    IN  Bind(get_session(st, cmd.session_id), LAMBDA st1 :
          IF Unhashable(cmd.target) THEN Raise(st1, "TypeError")
          ELSE IF ~InObjects(st1, cmd.target, cmd.session_id)
          THEN Ok(st1, StaleResp(cmd, op_info))
          ELSE IF batch_size.t # "int"        \* range(batch_size) raises inside the try
          THEN Ok(st1, PyExcResp(cmd, Raise(st1, "TypeError"), op_info))
          ELSE Bind(Batch(st1, st1.S[cmd.session_id].objects[cmd.target.v],
                          batch_size.v, <<>>, cmd.session_id), LAMBDA b :
                 IF b.exc # ""
                 THEN IF IsException(b.exc) THEN Ok(b.st, PyExcResp(cmd, b, op_info))
                      ELSE Raise(b.st, b.exc)
                 ELSE Ok(IF b.done
                         THEN [b.st EXCEPT !.S[cmd.session_id].objects = Del(@, cmd.target.v)]
                         ELSE b.st,
                         make_response(ReqId(cmd),
                                 [kind |-> "list", items |-> b.items],
                                 [done |-> b.done], PyNone, PyNone))))

handle_iter_next_batch(st, cmd) ==
    IF cmd.session_id = NoSession \/ cmd.target = Absent THEN Raise(st, "KeyError")
    ELSE
    LET batch_size == IF cmd.batch_size = Absent THEN PyInt(DefaultBatch) ELSE cmd.batch_size
        op_info == [cmd |-> "iter_next_batch", target |-> cmd.target,
                    batch_size |-> batch_size]
    IN  Bind(get_session(st, cmd.session_id), LAMBDA st1 :
          IF Unhashable(cmd.target) THEN Raise(st1, "TypeError")
          ELSE IF ~InObjects(st1, cmd.target, cmd.session_id)
          THEN Ok(st1, StaleResp(cmd, op_info))
          ELSE IF batch_size.t # "int"        \* range(batch_size) raises inside the try
          THEN Ok(st1, PyExcResp(cmd, Raise(st1, "TypeError"), op_info))
          ELSE Bind(Batch(st1, st1.S[cmd.session_id].objects[cmd.target.v],
                          batch_size.v, <<>>, cmd.session_id), LAMBDA b :
                 IF b.exc # ""
                 THEN IF IsException(b.exc) THEN Ok(b.st, PyExcResp(cmd, b, op_info))
                      ELSE Raise(b.st, b.exc)
                 ELSE Ok(b.st, make_response(ReqId(cmd),
                                 [kind |-> "list", items |-> b.items],
                                 [done |-> b.done], PyNone, PyNone))))

\* (variant: one store for all sessions: the id is deleted wherever it is held)
handle_delete_any(st, cmd) ==
    IF cmd.session_id = NoSession \/ cmd.target = Absent THEN Raise(st, "KeyError")
    ELSE Bind(get_session(st, cmd.session_id), LAMBDA st1 :
           IF Unhashable(cmd.target) THEN Raise(st1, "TypeError")
           ELSE Ok([st1 EXCEPT !.S = [s \in DOMAIN st1.S |->
                                        IF cmd.target.t = "str"
                                           /\ cmd.target.v \in DOMAIN st1.S[s].objects
                                        THEN [st1.S[s] EXCEPT !.objects = Del(@, cmd.target.v)]
                                        ELSE st1.S[s]]],
                   make_response(ReqId(cmd), [kind |-> "value", value |-> PyNone],
                                 PyNone, PyNone, PyNone)))

\* (variant: delete empties the handle map of the session)
handle_delete_all(st, cmd) ==
    IF cmd.session_id = NoSession \/ cmd.target = Absent THEN Raise(st, "KeyError")
    ELSE Bind(get_session(st, cmd.session_id), LAMBDA st1 :
           IF Unhashable(cmd.target) THEN Raise(st1, "TypeError")
           ELSE Ok(IF InObjects(st1, cmd.target, cmd.session_id)
                   THEN [st1 EXCEPT !.S[cmd.session_id].objects = EmptyMap]
                   ELSE st1,
                   make_response(ReqId(cmd), [kind |-> "value", value |-> PyNone],
                                 PyNone, PyNone, PyNone)))

handle_delete(st, cmd) ==
    IF cmd.session_id = NoSession \/ cmd.target = Absent THEN Raise(st, "KeyError")
    ELSE Bind(get_session(st, cmd.session_id), LAMBDA st1 :
           IF Unhashable(cmd.target) THEN Raise(st1, "TypeError")
           ELSE Ok(IF InObjects(st1, cmd.target, cmd.session_id)
                   THEN [st1 EXCEPT !.S[cmd.session_id].objects = Del(@, cmd.target.v)]
                   ELSE st1,
                   make_response(ReqId(cmd), [kind |-> "value", value |-> PyNone],
                                 PyNone, PyNone, PyNone)))

\* ------------------------------------------------- main dispatch
DISPATCHER == {"call_function", "call_method", "get_attribute", "get_item",
               "slice", "iter", "iter_next_batch", "delete"}

Dispatch(st, cmd) ==
    CASE cmd.cmd = "call_function"   -> handle_call_function(st, cmd)
      [] cmd.cmd = "call_method"     -> handle_call_method(st, cmd)
      [] cmd.cmd = "get_attribute"   -> handle_get_attribute(st, cmd)
      [] cmd.cmd = "get_item"        -> handle_get_item(st, cmd)
      [] cmd.cmd = "slice"           -> handle_slice(st, cmd)
      [] cmd.cmd = "iter"            -> handle_iter(st, cmd)
      [] cmd.cmd = "iter_next_batch" -> handle_iter_next_batch(st, cmd)
      [] cmd.cmd = "delete"          -> handle_delete(st, cmd)

\* the body of the try in main for one stripped, non-empty line
Parsed(st, l) ==
    CASE l.kind = "badjson"   -> Raise(st, "JSONDecodeError")
      [] l.kind = "nonobject" -> Raise(st, "AttributeError")      \* cmd.get on a non-dict
      [] l.kind = "object" ->
           IF l.cmd.cmd \in DISPATCHER THEN Dispatch(st, l.cmd)
           ELSE Ok(st, make_response(ReqId(l.cmd), PyNone, PyNone,
                                     Err("ProtocolError", "", "Unknown command"), PyNone))

\* one iteration of the loop of main: what is printed, and whether the loop goes on
main(st, l) ==
    Bind(Parsed(st, l), LAMBDA r :
      IF r.exc = "" THEN [st |-> r.st, out |-> <<r.val>>, alive |-> TRUE]
      ELSE IF r.exc = "JSONDecodeError"
      THEN [st |-> r.st, alive |-> TRUE,
            out |-> <<make_response(NoReqId, PyNone, PyNone,
                                    Err("ProtocolError", "", "Invalid JSON"), PyNone)>>]
      ELSE IF IsException(r.exc)
      THEN [st |-> r.st, alive |-> TRUE,
            out |-> <<make_response(NoReqId, PyNone, PyNone,
                                    Err("WorkerCrash", "", ""), PyNone)>>]
      ELSE [st |-> r.st, out |-> <<>>, alive |-> FALSE])

\* ------------------------------------------------- the request lines of a run
Sids == {"s1", "s2"}

TV(v)     == [kind |-> "value", value |-> v]
TH(id, s) == [kind |-> "handle", id |-> id, session_id |-> s]

Target(id) == PyStr(id)
Dotted(a, b) == <<a, ".", b>>

\* the ids a client can hold or guess
TargetIds == {HId(k) : k \in 1..MaxHandles} \cup {ItId(k) : k \in 2..MaxHandles}

Cmd(c, sid, target) ==
    [cmd |-> c, session_id |-> sid, req_id |-> "r1", target |-> target,
     method |-> Absent, name |-> Absent, key |-> Absent, start |-> Absent,
     stop |-> Absent, step |-> Absent, batch_size |-> Absent, args |-> Absent,
     kwargs |-> Absent]

\* a request with one of its keys taken out
Without(cmd) ==
    {[cmd EXCEPT !.session_id = NoSession]}
    \cup (IF cmd.args # Absent THEN {[cmd EXCEPT !.args = Absent]} ELSE {})
    \cup (IF cmd.method # Absent THEN {[cmd EXCEPT !.method = Absent]} ELSE {})
    \cup (IF cmd.name # Absent THEN {[cmd EXCEPT !.name = Absent]} ELSE {})
    \cup (IF cmd.key # Absent THEN {[cmd EXCEPT !.key = Absent]} ELSE {})
    \cup (IF cmd.start # Absent THEN {[cmd EXCEPT !.step = Absent]} ELSE {})
    \cup (IF cmd.cmd \in {"iter", "delete", "call_function"}
          THEN {[cmd EXCEPT !.target = Absent], [cmd EXCEPT !.req_id = NoReqId]}
          ELSE {})

\* targets that are not strings
OddTargets == {PyInt(0), PyList(<<PyStr(<<"StaleHandle">>)>>)}
OddTarget  == {PyList(<<PyStr(<<"StaleHandle">>)>>)}
AHandle == TH(HId(1), "s1")

\* a text one character over the limit of a handle's repr and str
LongStr == [i \in 1..(ReprLimit + 1) |-> "x"]

CF(sid, t, args) == [Cmd("call_function", sid, PyStr(t)) EXCEPT !.args = PyList(args)]

CallFunctionReqs ==
    {CF("s1", Dotted("builtins", "range"), <<TV(PyInt(n))>>) : n \in 0..MaxN}
    \cup {CF("s2", Dotted("builtins", "range"), <<TV(PyInt(1))>>)}
    \cup {CF("s1", Dotted("fractions", "Fraction"), <<TV(PyInt(0))>>)}
    \cup {CF("s2", Dotted("itertools", "repeat"), <<TV(PyStr(LongStr)), TV(PyInt(1))>>)}
    \cup {CF("s1", t, <<TV(PyStr(<<"x">>))>>) :
            t \in {Dotted("builtins", "eval"),
                   Dotted("builtins", "eval") \o <<".">> \o Dunder("call"),
                   <<"eval">>}}
    \cup {CF("s1", t, <<>>) :
            t \in {Dotted("sys", "exit"), Dotted("nomod", "f"),
                   Dotted("builtins", "nosuch"), <<>>}}
    \cup {CF("s1", <<"range">>, <<TV(PyInt(1))>>),
          CF("s1", Dotted("builtins", "range"), <<AHandle>>),
          [CF("s1", Dotted("builtins", "range"), <<TV(PyInt(1))>>)
             EXCEPT !.kwargs = PyList(<<AHandle>>)]}
    \cup {[CF("s1", <<"x">>, <<>>) EXCEPT !.target = t] : t \in OddTarget}
    \cup Without(CF("s1", Dotted("builtins", "range"), <<TV(PyInt(1))>>))

CM(sid, target, m, args) ==
    [Cmd("call_method", sid, target) EXCEPT !.method = PyStr(m), !.args = PyList(args)]

ModuleTarget(m) == [t |-> "module", module |-> m]

\* requests in the second session, and the rarer shapes, name these ids only
FewIds == {HId(1), HId(2), ItId(2)}

CallMethodReqs ==
    {CM("s1", Target(id), m, <<>>) :
        id \in TargetIds, m \in {Dunder("iter"), Dunder("len")}}
    \cup {CM("s1", Target(HId(1)), m, <<>>) : m \in {Dunder("class"), <<"eval">>, <<"nosuch">>}}
    \cup {CM("s2", Target(id), Dunder("len"), <<>>) : id \in FewIds}
    \cup {CM("s1", Target(id), Dunder("len"), <<AHandle>>) : id \in FewIds}
    \cup {[CM("s1", Target(HId(2)), Dunder("len"), <<>>)
             EXCEPT !.kwargs = PyList(<<AHandle>>)],
          CM("s1", ModuleTarget(Dotted("builtins", "eval")), Dunder("call"),
             <<TV(PyStr(<<"x">>))>>),
          CM("s1", ModuleTarget(<<"builtins">>), <<"range">>, <<TV(PyInt(1))>>),
          CM("s1", ModuleTarget(<<"nomod">>), <<"f">>, <<>>)}
    \cup {CM("s1", t, Dunder("len"), <<>>) : t \in OddTargets}
    \cup Without(CM("s1", Target(HId(1)), Dunder("len"), <<>>))

GA(sid, target, n) == [Cmd("get_attribute", sid, target) EXCEPT !.name = PyStr(n)]

GetAttributeReqs ==
    {GA("s1", Target(id), n) : id \in TargetIds, n \in {<<"stop">>, <<"_", "x">>}}
    \cup {GA("s1", Target(HId(1)), n) : n \in {Dunder("class"), <<"eval">>, <<"nosuch">>}}
    \cup {GA("s2", Target(id), n) : id \in FewIds, n \in {<<"stop">>, <<"_", "x">>}}
    \cup {GA("s1", ModuleTarget(<<"builtins">>), n) : n \in {<<"eval">>, <<"nosuch">>}}
    \cup {GA("s1", t, n) : t \in OddTarget, n \in {<<"stop">>, <<"_", "x">>}}
    \cup Without(GA("s1", Target(HId(1)), <<"stop">>))
    \cup Without(GA("s1", Target(HId(1)), <<"_", "x">>))

GI(sid, target, k) == [Cmd("get_item", sid, target) EXCEPT !.key = k]

GetItemReqs ==
    {GI("s1", Target(id), k) : id \in TargetIds, k \in {TV(PyInt(0)), TV(PyInt(MaxN))}}
    \cup {GI("s1", Target(id), AHandle) : id \in FewIds}
    \cup {GI("s2", Target(id), TV(PyInt(0))) : id \in FewIds}
    \cup {GI("s1", t, TV(PyInt(0))) : t \in OddTargets}
    \cup {GI("s1", Target(HId(1)), [kind |-> "bogus"])}
    \cup Without(GI("s1", Target(HId(1)), TV(PyInt(0))))

SL(sid, target, a, b, c) ==
    [Cmd("slice", sid, target) EXCEPT !.start = a, !.stop = b, !.step = c]

Bounds == {<<TV(PyNone), TV(PyNone), TV(PyInt(0))>>,
           <<AHandle, TV(PyNone), TV(PyNone)>>,
           <<TV(PyNone), AHandle, TV(PyInt(0))>>,
           <<TV(PyNone), TV(PyNone), AHandle>>,
           <<TV(PyNone), TV(PyNone), [kind |-> "bogus"]>>,
           <<TV(PyStr(<<"x">>)), TV(PyNone), TV(PyNone)>>}

SliceReqs ==
    {SL("s1", Target(id), TV(PyNone), TV(PyNone), TV(PyNone)) : id \in TargetIds}
    \cup {SL("s1", Target(id), TV(PyInt(0)), TV(PyInt(1)), TV(PyInt(1))) : id \in TargetIds}
    \cup {SL("s1", Target(id), b[1], b[2], b[3]) : id \in FewIds, b \in Bounds}
    \cup {SL("s2", Target(id), TV(PyNone), TV(PyNone), TV(PyNone)) : id \in FewIds}
    \cup {SL("s1", t, TV(PyNone), TV(PyNone), TV(PyNone)) : t \in OddTarget}
    \cup Without(SL("s1", Target(HId(1)), TV(PyNone), TV(PyNone), TV(PyNone)))

IterReqs ==
    {Cmd("iter", "s1", Target(id)) : id \in TargetIds}
    \cup {Cmd("iter", "s2", Target(id)) : id \in FewIds}
    \cup {Cmd("iter", "s1", t) : t \in OddTarget}
    \cup Without(Cmd("iter", "s1", Target(HId(1))))

NB(sid, target, b) == [Cmd("iter_next_batch", sid, target) EXCEPT !.batch_size = b]

IterNextBatchReqs ==
    {NB("s1", Target(id), b) :
        id \in TargetIds, b \in {Absent} \cup {PyInt(n) : n \in 1..MaxN}}
    \cup {NB("s1", Target(ItId(2)), b) : b \in {PyNone, PyInt(0), PyInt(-1)}}
    \cup {NB("s2", Target(id), PyInt(1)) : id \in FewIds}
    \cup {NB("s1", t, PyInt(1)) : t \in OddTarget}
    \cup Without(NB("s1", Target(ItId(2)), PyInt(1)))

DeleteReqs ==
    {Cmd("delete", "s1", Target(id)) : id \in TargetIds}
    \cup {Cmd("delete", "s2", Target(id)) : id \in FewIds}
    \cup {Cmd("delete", "s1", t) : t \in OddTarget}
    \cup Without(Cmd("delete", "s1", Target(HId(1))))

UnknownReqs ==
    {Cmd("debug_eval", "s1", Absent), Cmd(NoCmd, "s1", Absent),
     [Cmd("shutdown", NoSession, Absent) EXCEPT !.req_id = NoReqId]}

\* ------------------------------------------------- state
VARIABLES
    SESSIONS,   \* _SESSIONS: session_id -> [objects: id -> object, modules]
    heap,       \* the range_iterator objects: <<[r |-> range, pos |-> consumed]>>
    uuid,       \* how many ids uuid4 has produced; each one is new
    pc,         \* "read": main waits for a line; "written": a response is in the pipe;
                \* "skipped": the line was empty;
                \* "exited": an exception left main; "eof": stdin ended
    line,       \* the line main read last
    out,        \* what main printed for that line
    reflect,    \* the imports, getattrs, calls and indexings executed for that line
    iterlog,    \* per iterator: what iter_next_batch responses delivered from it
    issued,     \* every id handed out so far -> the session of the request it answered
    arg,        \* a function of the worker called on its own: its arguments
                \* (encode_value: [v: the value, session_id])
    tnk,        \* what encode_value returned for arg
    ret,        \* what the call returned (decode_value: what it made of tnk)
    _objects,   \* bridge/worker.py: _objects, id string -> object
    _next_id,   \* bridge/worker.py: _next_id
    installed,  \* bridge/worker.py: which of numpy and pandas the interpreter can import
    stored,     \* every store_object call so far: <<[handle, obj], ...>>
    done,       \* the last call of the handle store's functions and what it returned
    id_counter,     \* ir_base.py: TsuchinokoNode.id_counter
    declared_vars,  \* ir_nodes.py: TsuchinokoAssign.declared_vars
    compiled,   \* the calls of the compiler so far: <<[op, node, cls, text, exc, log], ...>>
    scope_tree,     \* ir_base.py: TsuchinokoNode.scope_tree, node_id -> parent id or None
    var_table       \* ir_nodes.py: TsuchinokoName.var_table, name -> what register stored

vars == <<SESSIONS, heap, uuid, pc, line, out, reflect, iterlog, issued, arg, tnk, ret,
          _objects, _next_id, installed, stored, done,
          id_counter, declared_vars, compiled, scope_tree, var_table>>

\* the variables of a direct call of encode_value and decode_value
trip == <<arg, tnk, ret>>
NoCall == [t |-> "none"]

\* the variables of the handle store of bridge/worker.py
legacy == <<_objects, _next_id, installed, stored, done>>

\* the variables of the compiler
unit == <<id_counter, declared_vars, compiled, scope_tree, var_table>>

NoLine == [kind |-> "none"]
Blank  == [kind |-> "blank"]
Line(cmd) == [kind |-> "object", cmd |-> cmd]

Init ==
    /\ SESSIONS = EmptyMap
    /\ heap = <<>>
    /\ uuid = 0
    /\ pc = "read"
    /\ line = NoLine
    /\ out = <<>>
    /\ reflect = {}
    /\ iterlog = <<>>
    /\ issued = EmptyMap
    /\ arg = NoCall /\ tnk = NoCall /\ ret = NoCall
    /\ _objects = EmptyMap /\ _next_id = 0 /\ installed = {}
    /\ stored = <<>> /\ done = NoCall
    /\ id_counter = 0 /\ declared_vars = {} /\ compiled = <<>>
    /\ scope_tree = EmptyMap /\ var_table = EmptyMap

\* the iterator a request's target names, 0 if it names none
TargetIter(l) ==
    IF /\ l.kind = "object"
       /\ l.cmd.session_id \in DOMAIN SESSIONS
       /\ l.cmd.target.t = "str"
       /\ l.cmd.target.v \in DOMAIN SESSIONS[l.cmd.session_id].objects
       /\ SESSIONS[l.cmd.session_id].objects[l.cmd.target.v].t \in {"iter", "repeat", "chain"}
    THEN SESSIONS[l.cmd.session_id].objects[l.cmd.target.v].a
    ELSE 0

\* The record of what each iterator has handed out through iter_next_batch,
\* the only consumer of iterators among the requests of a run.
\* asked: an iter_next_batch request has named the iterator, whatever the answer was.
Logged(l, m) ==
    [a \in 1..Len(m.st.H) |->
        IF a > Len(heap) THEN [items |-> <<>>, done |-> FALSE, asked |-> FALSE]
        ELSE IF /\ l.kind = "object" /\ l.cmd.cmd = "iter_next_batch"
                /\ TargetIter(l) = a
        THEN IF m.out # <<>> /\ m.out[1].kind = "ok"
             THEN [items |-> iterlog[a].items \o m.out[1].value.items,
                   done  |-> iterlog[a].done \/ m.out[1].meta.done,
                   asked |-> TRUE]
             ELSE [iterlog[a] EXCEPT !.asked = TRUE]
        ELSE iterlog[a]]

\* the ids of the store S, each with the session that holds it
Held(S) == UNION {{<<id, s>> : id \in DOMAIN S[s].objects} : s \in DOMAIN S}

Issued(S) ==
    LET new == {p \in Held(S) : p[1] \notin DOMAIN issued}
    IN  [id \in DOMAIN issued \cup {p[1] : p \in new} |->
            IF id \in DOMAIN issued THEN issued[id]
            ELSE (CHOOSE p \in new : p[1] = id)[2]]

\* the state main leaves behind: m is what one iteration of its loop did with line l
HandledWithin(l, m, ids) ==
    /\ m.st.U <= ids
    /\ SESSIONS' = m.st.S
    /\ heap' = m.st.H
    /\ uuid' = m.st.U
    /\ reflect' = m.st.E
    /\ out' = m.out
    /\ iterlog' = Logged(l, m)
    /\ issued' = Issued(m.st.S)
    /\ pc' = IF m.alive THEN "written" ELSE "exited"
    /\ line' = l
    /\ UNCHANGED <<trip, legacy, unit>>

Handled(l, m) == HandledWithin(l, m, MaxHandles)

\* main handles line l and prints the response
Step(l) == Handled(l, main([S |-> SESSIONS, H |-> heap, U |-> uuid, E |-> {}], l))

CallFunction ==
    \E cmd \in CallFunctionReqs :
        /\ pc = "read"
        /\ Step(Line(cmd))

CallMethod ==
    \E cmd \in CallMethodReqs :
        /\ pc = "read"
        /\ Step(Line(cmd))

GetAttribute ==
    \E cmd \in GetAttributeReqs :
        /\ pc = "read"
        /\ Step(Line(cmd))

GetItem ==
    \E cmd \in GetItemReqs :
        /\ pc = "read"
        /\ Step(Line(cmd))

Slice ==
    \E cmd \in SliceReqs :
        /\ pc = "read"
        /\ Step(Line(cmd))

Iter ==
    \E cmd \in IterReqs :
        /\ pc = "read"
        /\ Step(Line(cmd))

IterNextBatch ==
    \E cmd \in IterNextBatchReqs :
        /\ pc = "read"
        /\ Step(Line(cmd))

Delete ==
    \E cmd \in DeleteReqs :
        /\ pc = "read"
        /\ Step(Line(cmd))

UnknownCommand ==
    \E cmd \in UnknownReqs :
        /\ pc = "read"
        /\ Step(Line(cmd))

\* a line json.loads rejects
InvalidJson ==
    /\ pc = "read"
    /\ Step([kind |-> "badjson"])

\* a line that is JSON but no object: a number, a string, a list
NotAnObject ==
    /\ pc = "read"
    /\ Step([kind |-> "nonobject"])

\* `if not line:` main has read an empty line and prints nothing for it
BlankLine ==
    /\ pc = "read"
    /\ pc' = "skipped"
    /\ line' = Blank
    /\ UNCHANGED <<SESSIONS, heap, uuid, out, reflect, iterlog, issued, trip, legacy, unit>>

\* `continue`: back to `for line in sys.stdin`
Continue ==
    /\ pc = "skipped"
    /\ pc' = "read"
    /\ line' = NoLine
    /\ UNCHANGED <<SESSIONS, heap, uuid, out, reflect, iterlog, issued, trip, legacy, unit>>

\* the client takes the response off the pipe; main is back at `for line in sys.stdin`
ClientReadsResponse ==
    /\ pc = "written"
    /\ pc' = "read"
    /\ line' = NoLine
    /\ out' = <<>>
    /\ reflect' = {}
    /\ UNCHANGED <<SESSIONS, heap, uuid, iterlog, issued, trip, legacy, unit>>

\* stdin is closed: the for loop ends and main returns
EndOfInput ==
    /\ pc = "read"
    /\ pc' = "eof"
    /\ UNCHANGED <<SESSIONS, heap, uuid, line, out, reflect, iterlog, issued, trip, legacy, unit>>

Next ==
    \/ CallFunction
    \/ CallMethod
    \/ GetAttribute
    \/ GetItem
    \/ Slice
    \/ Iter
    \/ IterNextBatch
    \/ Delete
    \/ UnknownCommand
    \/ InvalidJson
    \/ NotAnObject
    \/ BlankLine
    \/ Continue
    \/ ClientReadsResponse
    \/ EndOfInput

Spec == Init /\ [][Next]_vars

\* ------------------------------------------------- encode_value and decode_value alone
\* The values json can carry inline, by size: MaxSize bounds the number of
\* scalars and containers a value is made of (a dict key is not counted).
MaxSize == 3

Atoms == {PyNone, PyBool(TRUE), PyInt(1), PyFloat(3), PyStr(<<"x">>)}
Keys  == {PyStr(<<"x">>), PyInt(1), PyBool(TRUE), PyTuple(<<PyInt(1)>>)}

\* the key sequences of a dict of n entries: no two keys equal
KeySeqs(n) ==
    {ks \in [1..n -> Keys] : \A i \in 1..n : \A j \in 1..n : i < j => ~PyEq(ks[i], ks[j])}

RECURSIVE Vals(_)
RECURSIVE ValSeqs(_)
\* the values of size at most k
Vals(k) ==
    IF k <= 0 THEN {}
    ELSE Atoms
         \cup {PyList(xs) : xs \in ValSeqs(k - 1)}
         \cup {PyTuple(xs) : xs \in ValSeqs(k - 1)}
         \cup UNION {{PyDict([i \in 1..Len(xs) |-> [key |-> ks[i], value |-> xs[i]]]) :
                        ks \in KeySeqs(Len(xs))} : xs \in ValSeqs(k - 1)}

\* the sequences of values of total size at most k
ValSeqs(k) ==
    {<<>>} \cup UNION {{<<v>> \o xs : v \in Vals(j), xs \in ValSeqs(k - j)} : j \in 1..k}

\* the stores a call can find: nothing yet, or a session that holds an object
Stores == {EmptyMap,
           [s \in {"s1"} |-> [objects |-> [id \in {HId(1)} |-> PyRange(0, 1, 1)],
                              modules |-> EmptyMap]]}

InitTrip ==
    /\ SESSIONS \in Stores
    /\ uuid = Cardinality(Held(SESSIONS))
    /\ issued = [id \in {p[1] : p \in Held(SESSIONS)} |-> "s1"]
    /\ heap = <<>> /\ iterlog = <<>>
    /\ line = NoLine /\ out = <<>> /\ reflect = {}
    /\ pc = "encode"
    /\ \E v \in Vals(MaxSize), s \in Sids : arg = [v |-> v, session_id |-> s]
    /\ tnk = NoCall /\ ret = NoCall
    /\ _objects = EmptyMap /\ _next_id = 0 /\ installed = {}
    /\ stored = <<>> /\ done = NoCall
    /\ id_counter = 0 /\ declared_vars = {} /\ compiled = <<>>
    /\ scope_tree = EmptyMap /\ var_table = EmptyMap

\* tnk = encode_value(v, session_id)
EncodeValue ==
    /\ pc = "encode"
    /\ LET e == encode_value([S |-> SESSIONS, H |-> heap, U |-> uuid, E |-> {}],
                             arg.v, arg.session_id)
       IN  /\ tnk' = e.val
           /\ SESSIONS' = e.st.S
           /\ uuid' = e.st.U
    /\ pc' = "decode"
    /\ UNCHANGED <<heap, line, out, reflect, iterlog, issued, arg, ret, legacy, unit>>

\* ret = decode_value(tnk, session_id), or the exception it raised
DecodeValue ==
    /\ pc = "decode"
    /\ LET d == decode_value([S |-> SESSIONS, H |-> heap, U |-> uuid, E |-> {}],
                             tnk, arg.session_id)
       IN  /\ ret' = [exc |-> d.exc, val |-> d.val]
           /\ SESSIONS' = d.st.S
           /\ uuid' = d.st.U
    /\ pc' = "decoded"
    /\ UNCHANGED <<heap, line, out, reflect, iterlog, issued, arg, tnk, legacy, unit>>

NextTrip ==
    \/ EncodeValue
    \/ DecodeValue

RoundTrip == InitTrip /\ [][NextTrip]_vars

\* ------------------------------------------------- bridge/worker.py: the handle store
\* An object is an address and what stands there: two objects are the same
\* object when the address is the same.  Address 0 is an object a call has
\* just made (the list of tolist(), the scalar of item()).
MaxStored == 2

At(a, v) == [at |-> a, v |-> v]

NonSerializable == [t |-> "object"]             \* an instance of a plain class
Cycle    == [t |-> "cycle"]                     \* a list that holds itself
Deep     == [t |-> "deep"]                      \* lists nested deeper than the recursion limit
NdArray(xs)  == [t |-> "ndarray", items |-> xs]
NpInteger(n) == [t |-> "np.integer", v |-> n]
DataFrame    == [t |-> "DataFrame"]
Series(xs)   == [t |-> "Series", items |-> xs]

\* what json.dumps(v) does: "ok" or the exception it raises
RECURSIVE dumps(_)
RECURSIVE dumps_items(_)
dumps(v) ==
    CASE v.t \in {"none", "bool", "int", "float", "str"} -> "ok"
      [] v.t \in {"list", "tuple"} -> dumps_items(v.items)
      [] v.t = "dict" ->
           IF \E i \in 1..Len(v.items) :
                 v.items[i].key.t \notin {"str", "int", "float", "bool", "none"}
           THEN "TypeError"
           ELSE dumps_items([i \in 1..Len(v.items) |-> v.items[i].value])
      [] v.t = "cycle" -> "ValueError"
      [] v.t = "deep" -> "RecursionError"
      [] OTHER -> "TypeError"
dumps_items(xs) ==
    IF xs = <<>> THEN "ok"
    ELSE IF dumps(Head(xs)) # "ok" THEN dumps(Head(xs))
    ELSE dumps_items(Tail(xs))

\* {"__t_handle": id_str}
Handle(id_str) == PyDict(<<[key |-> PyStr(<<"__t_handle">>), value |-> id_str]>>)

\* handle_data["__t_handle"], Missing when handle_data is no dict or has no such key
HandleId(handle_data) ==
    IF handle_data.t = "dict"
       /\ \E i \in 1..Len(handle_data.items) :
              handle_data.items[i].key = PyStr(<<"__t_handle">>)
    THEN (handle_data.items[CHOOSE i \in 1..Len(handle_data.items) :
              handle_data.items[i].key = PyStr(<<"__t_handle">>)]).value
    ELSE Missing

\* (variant: the counter stands still)
store_object_same(O, n, obj) ==
    LET id_str == PyStr(IntStr(n))
    IN  [O |-> [x \in DOMAIN O \cup {id_str} |-> IF x = id_str THEN obj ELSE O[x]],
         n |-> n,
         val |-> Handle(id_str), exc |-> ""]

\* store_object(obj) with _objects = O and _next_id = n
store_object(O, n, obj) ==
    LET id_str == PyStr(IntStr(n))
    IN  [O |-> [x \in DOMAIN O \cup {id_str} |-> IF x = id_str THEN obj ELSE O[x]],
         n |-> n + 1,
         val |-> Handle(id_str), exc |-> ""]

\* get_object(handle_data); an id that cannot be hashed stops the lookup
get_object(O, handle_data) ==
    LET id_str == HandleId(handle_data)
    IN  IF id_str = Missing THEN [exc |-> "ValueError", val |-> PyNone]
        ELSE IF ~Hashable(id_str) THEN [exc |-> "TypeError", val |-> PyNone]
        ELSE IF id_str \in DOMAIN O THEN [exc |-> "", val |-> O[id_str]]
        ELSE [exc |-> "ValueError", val |-> PyNone]

\* (variant: json.dumps is not tried, every result that is no scalar is stored)
serialize_result_stored(O, n, site, result) ==
    IF result.v.t \in {"none", "int", "float", "bool", "str"}
    THEN [O |-> O, n |-> n, val |-> result, exc |-> ""]
    ELSE store_object(O, n, result)

\* serialize_result(result); site is what `import` finds
serialize_result(O, n, site, result) ==
    IF result.v.t \in {"none", "int", "float", "bool", "str"}
    THEN [O |-> O, n |-> n, val |-> result, exc |-> ""]
    ELSE IF "numpy" \in site /\ result.v.t = "ndarray"
    THEN [O |-> O, n |-> n, val |-> At(0, PyList(result.v.items)), exc |-> ""]
    ELSE IF "numpy" \in site /\ result.v.t = "np.integer"
    THEN [O |-> O, n |-> n, val |-> At(0, PyInt(result.v.v)), exc |-> ""]
    ELSE IF "pandas" \in site /\ result.v.t = "DataFrame"
    THEN store_object(O, n, result)
    ELSE IF "pandas" \in site /\ result.v.t = "Series"
    THEN [O |-> O, n |-> n, val |-> At(0, PyList(result.v.items)), exc |-> ""]
    ELSE IF dumps(result.v) = "ok"
    THEN [O |-> O, n |-> n, val |-> result, exc |-> ""]
    ELSE IF dumps(result.v) \in {"TypeError", "ValueError"}
    THEN store_object(O, n, result)
    ELSE [O |-> O, n |-> n, val |-> PyNone, exc |-> dumps(result.v)]

\* the objects a caller can hold, each at its own address
Plain ==
    <<PyNone, PyBool(TRUE), PyInt(1), PyFloat(3), PyStr(<<"a">>),
      PyList(<<PyInt(1), PyInt(2), PyInt(3)>>),
      PyDict(<<[key |-> PyStr(<<"key">>), value |-> PyStr(<<"value">>)]>>),
      NonSerializable, NonSerializable,
      PyDict(<<[key |-> PyTuple(<<PyInt(1)>>), value |-> PyInt(3)]>>),
      Cycle, Deep>>
Numpy  == <<NdArray(<<PyInt(1), PyInt(2)>>), NpInteger(1)>>
Pandas == <<DataFrame, Series(<<PyInt(1)>>)>>

Made(site) ==
    Plain \o (IF "numpy" \in site THEN Numpy ELSE <<>>)
          \o (IF "pandas" \in site THEN Pandas ELSE <<>>)

Results(site) == {At(a, Made(site)[a]) : a \in 1..Len(Made(site))}

\* what get_object can be handed: the handles given out, a handle nobody gave
\* out, an id that is no string, and things that are no handle
HandleData ==
    {stored[i].handle : i \in 1..Len(stored)}
    \cup {Handle(PyStr(IntStr(_next_id))), Handle(PyInt(0)), Handle(PyList(<<>>)),
          PyDict(<<>>), PyNone}

InitLegacy ==
    /\ SESSIONS = EmptyMap /\ heap = <<>> /\ uuid = 0
    /\ pc = "legacy" /\ line = NoLine /\ out = <<>>
    /\ reflect = {} /\ iterlog = <<>> /\ issued = EmptyMap
    /\ arg = NoCall /\ tnk = NoCall /\ ret = NoCall
    /\ _objects = EmptyMap /\ _next_id = 0
    /\ installed \in {{}, {"numpy"}, {"numpy", "pandas"}}
    /\ stored = <<>> /\ done = NoCall
    /\ id_counter = 0 /\ declared_vars = {} /\ compiled = <<>>
    /\ scope_tree = EmptyMap /\ var_table = EmptyMap

Apart == <<SESSIONS, heap, uuid, pc, line, out, reflect, iterlog, issued, trip>>

\* handle = store_object(obj)
StoreObject ==
    /\ _next_id < MaxStored
    /\ \E obj \in Results(installed) :
          LET r == store_object(_objects, _next_id, obj)
          IN  /\ _objects' = r.O
              /\ _next_id' = r.n
              /\ stored' = Append(stored, [handle |-> r.val, obj |-> obj])
              /\ done' = [op |-> "store_object", arg |-> obj, val |-> r.val, exc |-> ""]
    /\ UNCHANGED <<installed, Apart, unit>>

\* serialize_result(result)
SerializeResult ==
    /\ _next_id < MaxStored
    /\ \E result \in Results(installed) :
          LET r == serialize_result(_objects, _next_id, installed, result)
          IN  /\ _objects' = r.O
              /\ _next_id' = r.n
              /\ stored' = IF r.n = _next_id THEN stored
                            ELSE Append(stored, [handle |-> r.val, obj |-> result])
              /\ done' = [op |-> "serialize_result", arg |-> result,
                          val |-> r.val, exc |-> r.exc]
    /\ UNCHANGED <<installed, Apart, unit>>

\* get_object(handle_data)
GetObject ==
    /\ pc = "legacy"
    /\ \E handle_data \in HandleData :
          LET r == get_object(_objects, handle_data)
          IN  done' = [op |-> "get_object", arg |-> handle_data,
                      val |-> r.val, exc |-> r.exc]
    /\ UNCHANGED <<_objects, _next_id, installed, stored, Apart, unit>>

NextLegacy ==
    \/ StoreObject
    \/ SerializeResult
    \/ GetObject

Legacy == InitLegacy /\ [][NextLegacy]_vars

\* ------------------------------------------------- bridge/worker.py: the main loop
\* A request is the JSON object of a line: its keys, Absent when the key is
\* missing.  What the callable of a call or the method of a method request does
\* when it is called is the outcome: it returns a result or it raises.
NoOp == "<absent>"                  \* op key missing

LReq(id, op) ==
    [id |-> id, op |-> op, target |-> Absent, args |-> <<>>,
     handle |-> Absent, method |-> Absent]

Garbage == [kind |-> "garbage"]                \* a line that is no JSON
JsonValue(v) == [kind |-> "json", v |-> v]     \* a line that is JSON, but no object

Returns(r) == [exc |-> "", val |-> r]
Raises(e)  == [exc |-> e, val |-> At(0, PyNone)]

LOk(result) == [ok |-> TRUE, result |-> result]
LErr(e)     == [ok |-> FALSE, error |-> e]

\* response["id"] = req_id
WithId(resp, req_id) ==
    IF resp.ok THEN [id |-> req_id, ok |-> TRUE, result |-> resp.result]
    ELSE [id |-> req_id, ok |-> FALSE, error |-> resp.error]

\* [get_object(a) if isinstance(a, dict) and "__t_handle" in a else a for a in args]:
\* the exception it raises, "" when it raises none
RECURSIVE processed_args(_, _)
processed_args(O, args) ==
    IF args = <<>> THEN ""
    ELSE IF HandleId(Head(args)) # Missing /\ get_object(O, Head(args)).exc # ""
    THEN get_object(O, Head(args)).exc
    ELSE processed_args(O, Tail(args))

\* try: result = func(*processed_args, **kwargs); return ok(serialize_result(result))
\* except Exception: return the error.  exc is what passes the except clause.
Called(O, n, site, args, outcome) ==
    IF processed_args(O, args) # ""
    THEN [O |-> O, n |-> n, exc |-> "", resp |-> LErr(processed_args(O, args))]
    ELSE IF outcome.exc # ""
    THEN IF IsException(outcome.exc)
         THEN [O |-> O, n |-> n, exc |-> "", resp |-> LErr(outcome.exc)]
         ELSE [O |-> O, n |-> n, exc |-> outcome.exc, resp |-> LErr(outcome.exc)]
    ELSE Bind(serialize_result(O, n, site, outcome.val), LAMBDA r :
            IF r.exc # ""
            THEN [O |-> r.O, n |-> r.n, exc |-> "", resp |-> LErr(r.exc)]
            ELSE [O |-> r.O, n |-> r.n, exc |-> "", resp |-> LOk(r.val)])

\* handle_call(request); get_callable(target) and the call are the outcome
handle_call(O, n, site, request, outcome) ==
    IF request.target \in {Absent, PyNone, PyStr(<<>>)}
    THEN [O |-> O, n |-> n, exc |-> "", resp |-> LErr("Missing 'target' field")]
    ELSE Called(O, n, site, request.args, outcome)

\* handle_method(request); getattr(obj, method_name) and the call are the outcome
handle_method(O, n, site, request, outcome) ==
    Bind(get_object(O, IF request.handle = Absent THEN PyNone ELSE request.handle),
         LAMBDA obj :
            IF obj.exc # ""
            THEN [O |-> O, n |-> n, exc |-> "", resp |-> LErr(obj.exc)]
            ELSE IF request.method = Absent         \* getattr(obj, None)
            THEN [O |-> O, n |-> n, exc |-> "", resp |-> LErr("TypeError")]
            ELSE Called(O, n, site, request.args, outcome))

\* one round of the loop of main() on line l: what is printed, and where the
\* loop stands afterwards
main_loop(O, n, site, l, outcome) ==
    CASE l.kind = "blank" -> [O |-> O, n |-> n, out |-> <<>>, pc |-> "read"]
      [] l.kind = "garbage" ->
           [O |-> O, n |-> n, pc |-> "read",
            out |-> <<[id |-> PyNone, ok |-> FALSE, error |-> "JSON parse error"]>>]
      \* request.get on what is no dict: AttributeError, outside every try
      [] l.kind = "json" ->
           [O |-> O, n |-> n, out |-> <<>>, pc |-> "crashed"]
      [] OTHER ->
           LET request == l.cmd
               req_id  == IF request.id = Absent THEN PyNone ELSE request.id
               op      == IF request.op = NoOp THEN "call" ELSE request.op
           IN  CASE op = "shutdown" ->
                      [O |-> O, n |-> n, pc |-> "exited",
                       out |-> <<WithId(LOk(PyStr(<<"shutdown">>)), req_id)>>]
                 [] op \in {"call", "method"} ->
                      Bind(IF op = "call" THEN handle_call(O, n, site, request, outcome)
                           ELSE handle_method(O, n, site, request, outcome),
                           LAMBDA r :
                              IF r.exc # ""
                              THEN [O |-> r.O, n |-> r.n, out |-> <<>>, pc |-> "exited"]
                              ELSE [O |-> r.O, n |-> r.n, pc |-> "read",
                                    out |-> <<WithId(r.resp, req_id)>>])
                 [] op = "ping" ->
                      [O |-> O, n |-> n, pc |-> "read",
                       out |-> <<WithId(LOk(PyStr(<<"pong">>)), req_id)>>]
                 [] OTHER ->
                      [O |-> O, n |-> n, pc |-> "read",
                       out |-> <<WithId(LErr("Unknown op"), req_id)>>]

LegacyIds == {Absent, PyInt(7)}

\* what a call can do: return an object (a scalar, one that is stored, one that
\* serialize_result fails on), raise an exception, or raise SystemExit
\* (builtins.exit)
Outcomes(site) ==
    {Returns(r) : r \in {x \in Results(site) : x.v \in {PyInt(1), NonSerializable, Deep}}}
    \cup {Raises("TypeError"), Raises("SystemExit")}

NoOutcome == Raises("")

CallLines ==
    {Line([LReq(id, op) EXCEPT !.target = t, !.args = a]) :
        id \in LegacyIds, op \in {NoOp, "call"},
        t \in {Absent, PyStr(<<>>), PyStr(<<"m", ".", "f">>)},
        a \in {<<>>, <<Handle(PyStr(IntStr(0)))>>, <<PyInt(1)>>}}

MethodLines ==
    {Line([LReq(id, "method") EXCEPT !.handle = h, !.method = m]) :
        id \in LegacyIds,
        h \in {Absent, Handle(PyStr(IntStr(0))), Handle(PyList(<<>>))},
        m \in {Absent, PyStr(<<"f">>)}}

InitLegacyMain ==
    /\ SESSIONS = EmptyMap /\ heap = <<>> /\ uuid = 0
    /\ pc = "read" /\ line = NoLine /\ out = <<>>
    /\ reflect = {} /\ iterlog = <<>> /\ issued = EmptyMap
    /\ arg = NoCall /\ tnk = NoCall /\ ret = NoCall
    /\ _objects = EmptyMap /\ _next_id = 0
    /\ installed \in {{}, {"numpy"}, {"numpy", "pandas"}}
    /\ stored = <<>> /\ done = NoCall
    /\ id_counter = 0 /\ declared_vars = {} /\ compiled = <<>>
    /\ scope_tree = EmptyMap /\ var_table = EmptyMap

\* main reads line l and goes once round its loop
LegacyRound(l, outcome) ==
    \E m \in {main_loop(_objects, _next_id, installed, l, outcome)} :
        /\ m.n <= MaxStored
        /\ _objects' = m.O
        /\ _next_id' = m.n
        /\ stored' = IF m.n = _next_id THEN stored
                      ELSE Append(stored, [handle |-> m.out[1].result, obj |-> outcome.val])
        /\ out' = m.out
        /\ line' = l
        /\ pc' = m.pc
        /\ UNCHANGED <<installed, done, SESSIONS, heap, uuid, reflect, iterlog, issued,
                       trip, unit>>

LegacyBlankLine ==
    /\ pc = "read"
    /\ LegacyRound(Blank, NoOutcome)

LegacyParseError ==
    /\ pc = "read"
    /\ LegacyRound(Garbage, NoOutcome)

LegacyNotAnObject ==
    \E v \in {PyInt(5), PyList(<<>>), PyNone} :
        /\ pc = "read"
        /\ LegacyRound(JsonValue(v), NoOutcome)

LegacyShutdown ==
    \E id \in LegacyIds :
        /\ pc = "read"
        /\ LegacyRound(Line(LReq(id, "shutdown")), NoOutcome)

LegacyPing ==
    \E id \in LegacyIds :
        /\ pc = "read"
        /\ LegacyRound(Line(LReq(id, "ping")), NoOutcome)

LegacyUnknownOp ==
    \E id \in LegacyIds :
        /\ pc = "read"
        /\ LegacyRound(Line(LReq(id, "zz")), NoOutcome)

LegacyCall ==
    \E l \in CallLines, outcome \in Outcomes(installed) :
        /\ pc = "read"
        /\ LegacyRound(l, outcome)

LegacyMethod ==
    \E l \in MethodLines, outcome \in Outcomes(installed) :
        /\ pc = "read"
        /\ LegacyRound(l, outcome)

\* stdin is closed: the for loop ends
LegacyEndOfInput ==
    /\ pc = "read"
    /\ pc' = "eof"
    /\ line' = NoLine
    /\ out' = <<>>
    /\ UNCHANGED <<legacy, SESSIONS, heap, uuid, reflect, iterlog, issued, trip, unit>>

NextLegacyMain ==
    \/ LegacyBlankLine
    \/ LegacyParseError
    \/ LegacyNotAnObject
    \/ LegacyShutdown
    \/ LegacyPing
    \/ LegacyUnknownOp
    \/ LegacyCall
    \/ LegacyMethod
    \/ LegacyEndOfInput

LegacyMain == InitLegacyMain /\ [][NextLegacyMain]_vars

\* ------------------------------------------------- the compiler: matcher.py, ir_nodes.py
\* An ast node is a record: t is the node's class, the other fields are the
\* node's own.  Text is a string.  cs is what the classes keep between calls:
\* [n: TsuchinokoNode.id_counter, dv: TsuchinokoAssign.declared_vars,
\*  log: the lines printed to stdout so far].
INDENT == "    "

RECURSIVE Times(_, _)
\* s * k
Times(s, k) == IF k <= 0 THEN "" ELSE s \o Times(s, k - 1)

RECURSIVE Join(_, _)
\* sep.join(xs)
Join(sep, xs) ==
    IF xs = <<>> THEN ""
    ELSE IF Len(xs) = 1 THEN xs[1]
    ELSE xs[1] \o sep \o Join(sep, Tail(xs))

\* sub in s
In(sub, s) ==
    \E i \in 1..(Len(s) - Len(sub) + 1) : SubSeq(s, i, i + Len(sub) - 1) = sub

\* getattr(node.func, 'id', None): "" stands for the default, which no name is
\* (TsuchinokoCall takes None for it, the other classes '')
FuncId(node) == IF "id" \in DOMAIN node.func THEN node.func.id ELSE ""

\* cls.matches(node)
matches(cls, node) ==
    CASE cls = "TsuchinokoModule"      -> node.t = "Module"
      [] cls = "TsuchinokoFunctionDef" -> node.t = "FunctionDef"
      [] cls = "TsuchinokoAssign"      -> node.t = "Assign"
      [] cls = "TsuchinokoExpr"        -> node.t = "Expr"
      [] cls = "TsuchinokoCall"        ->
           node.t = "Call" /\ FuncId(node) \notin {"print", "list", "len", "range"}
      [] cls = "TsuchinokoFor"         -> node.t = "For"
      [] cls = "TsuchinokoIf"          -> node.t = "If"
      [] cls = "TsuchinokoReturn"      -> node.t = "Return"
      [] cls = "TsuchinokoCompare"     -> node.t = "Compare"
      [] cls = "TsuchinokoBinOp"       -> node.t = "BinOp"
      [] cls = "TsuchinokoName"        -> node.t = "Name"
      [] cls = "TsuchinokoConstant"    -> node.t = "Constant"
      [] cls = "TsuchinokoTuple"       -> node.t = "Tuple"
      [] cls = "TsuchinokoList"        -> node.t = "List"
      [] cls = "TsuchinokoSubscript"   -> node.t = "Subscript"
      [] cls = "TsuchinokoAttribute"   -> node.t = "Attribute"
      [] cls = "TsuchinokoPrint"       -> node.t = "Call" /\ FuncId(node) = "print"
      [] cls = "TsuchinokoCallList"    -> node.t = "Call" /\ FuncId(node) = "list"
      [] cls = "TsuchinokoCallLen"     -> node.t = "Call" /\ FuncId(node) = "len"
      [] cls = "TsuchinokoContinue"    -> node.t = "Continue"
      [] cls = "TsuchinokoCallRange"   -> node.t = "Call" /\ FuncId(node) = "range"

NODE_CLASSES ==
    <<"TsuchinokoModule", "TsuchinokoFunctionDef", "TsuchinokoAssign", "TsuchinokoExpr",
      "TsuchinokoCall", "TsuchinokoFor", "TsuchinokoIf", "TsuchinokoReturn",
      "TsuchinokoCompare", "TsuchinokoBinOp", "TsuchinokoName", "TsuchinokoConstant",
      "TsuchinokoTuple", "TsuchinokoList", "TsuchinokoSubscript", "TsuchinokoAttribute",
      "TsuchinokoPrint", "TsuchinokoCallList", "TsuchinokoCallLen", "TsuchinokoContinue",
      "TsuchinokoCallRange">>

\* (variant: the generic call accepts every call)
match_node_generic(cs, node) ==
    LET hits == {i \in 1..Len(NODE_CLASSES) :
                    \/ matches(NODE_CLASSES[i], node)
                    \/ NODE_CLASSES[i] = "TsuchinokoCall" /\ node.t = "Call"}
    IN  IF hits # {}
        THEN [cs |-> [cs EXCEPT !.n = @ + 1, !.tree = Put(@, cs.n, cs.sp)],
              cls |-> NODE_CLASSES[CHOOSE i \in hits : \A j \in hits : i <= j],
              node_id |-> cs.n]
        ELSE [cs |-> [cs EXCEPT !.log = Append(@, "[WARN] " \o node.t)],
              cls |-> "None", node_id |-> 0]

\* match_node(node, indent_level, scope_parent_id): the instance of the first
\* class that accepts the node, with the node_id its constructor takes from the
\* counter and scope_tree[node_id] = scope_parent_id; or None and a warning.
\* cs.sp is the scope_parent_id the call is given.
\* (Only a Call has a func, and every Call matches a class: the warning that
\* names the callee is never printed.)
match_node(cs, node) ==
    LET hits == {i \in 1..Len(NODE_CLASSES) : matches(NODE_CLASSES[i], node)}
    IN  IF hits # {}
        THEN [cs |-> [cs EXCEPT !.n = @ + 1, !.tree = Put(@, cs.n, cs.sp)],
              cls |-> NODE_CLASSES[CHOOSE i \in hits : \A j \in hits : i <= j],
              node_id |-> cs.n]
        ELSE [cs |-> [cs EXCEPT !.log = Append(@, "[WARN] " \o node.t)],
              cls |-> "None", node_id |-> 0]

\* what an emitter returns: the text, or the exception that ended it
Text(cs, text) == [cs |-> cs, exc |-> "", text |-> text]
Fail(cs, exc)  == [cs |-> cs, exc |-> exc, text |-> ""]

\* TsuchinokoBinOp.emit_operator and TsuchinokoCompare.emit_operator
BinOperator(op) ==
    CASE op = "Add" -> "+" [] op = "Sub" -> "-" [] op = "Mult" -> "*"
      [] op = "Div" -> "/" [] op = "Mod" -> "%" [] OTHER -> "?"
CmpOperator(op) ==
    CASE op = "Eq" -> "==" [] op = "NotEq" -> "!=" [] op = "Lt" -> "<"
      [] op = "LtE" -> "<=" [] op = "Gt" -> ">" [] op = "GtE" -> ">=" [] OTHER -> "?"

\* str(value) of a constant
ConstStr(v) ==
    CASE v.t = "str" -> v.v
      [] v.t = "int" -> ToString(v.v)
      [] v.t = "bool" -> (IF v.v THEN "True" ELSE "False")
      [] v.t = "none" -> "None"

\* if __name__ == '__main__':
IsMainGuard(stmt) ==
    /\ stmt.test.left.t = "Name" /\ stmt.test.left.id = "__name__"
    /\ stmt.test.ops[1] = "Eq"
    /\ stmt.test.comparators[1].t = "Constant"
    /\ stmt.test.comparators[1].value = PyStr("__main__")

Unbound == <<>>       \* a local variable no assignment has reached; <<v>> once v is assigned

\* lines 45-48 of TsuchinokoModule.emit_rust
SetupFunc(setup_body) ==
    IF setup_body # <<>> THEN <<"fn setup() {\n" \o Join("\n", setup_body) \o "\n}">>
    ELSE <<"">>

RECURSIVE emit(_, _, _)
RECURSIVE emit_statement(_, _, _)
RECURSIVE emit_all(_, _, _, _)
RECURSIVE emit_rust(_, _, _, _, _)
RECURSIVE Module_body(_, _, _, _, _)
RECURSIVE Compare_pairs(_, _, _, _, _)
RECURSIVE Print_args(_, _, _, _)

\* self.matcher.match_node(node, indent_level, scope_parent_id).emit_rust(),
\* emit_expression() alike; the emitter of the new node gives its own node_id as
\* the scope_parent_id of every match_node call it makes
emit(cs, node, indent_level) ==
    Bind(match_node(cs, node), LAMBDA m :
        IF m.cls = "None" THEN Fail(m.cs, "AttributeError")
        ELSE Bind(emit_rust([m.cs EXCEPT !.sp = PyInt(m.node_id)], m.cls, node, m.node_id,
                            indent_level), LAMBDA r :
               [r EXCEPT !.cs.sp = cs.sp]))

\* self.matcher.match_node(node, indent_level).emit_statement()
emit_statement(cs, node, indent_level) ==
    Bind(emit(cs, node, indent_level), LAMBDA r :
        IF r.exc # "" THEN r ELSE Text(r.cs, Times(INDENT, indent_level) \o r.text))

\* [match_node(x, indent_level).emit_...() for x in nodes]; text is the list
emit_all(cs, nodes, indent_level, statements) ==
    IF nodes = <<>> THEN Text(cs, <<>>)
    ELSE Bind(IF statements THEN emit_statement(cs, Head(nodes), indent_level)
              ELSE emit(cs, Head(nodes), indent_level), LAMBDA h :
           IF h.exc # "" THEN h
           ELSE Bind(emit_all(h.cs, Tail(nodes), indent_level, statements), LAMBDA t :
                  IF t.exc # "" THEN t ELSE Text(t.cs, <<h.text>> \o t.text)))

\* the loop of TsuchinokoModule.emit_rust and what follows it
Module_body(cs, body, functions, setup_body, setup_func) ==
    IF body = <<>>
    THEN IF setup_func = Unbound THEN Fail(cs, "UnboundLocalError")
         ELSE Text(cs, (IF setup_func[1] # "" THEN setup_func[1] \o "\n\n" ELSE "")
                       \o (IF functions # <<>> THEN Join("\n\n", functions) ELSE ""))
    ELSE IF Head(body).t = "FunctionDef"
    THEN Bind(emit(cs, Head(body), 0), LAMBDA r :
           IF r.exc # "" THEN r
           ELSE Module_body(r.cs, Tail(body), Append(functions, r.text), setup_body,
                            SetupFunc(setup_body)))
    ELSE IF Head(body).t = "If" /\ Head(body).test.t = "Compare"
    THEN IF IsMainGuard(Head(body))
         THEN Bind(emit_all(cs, Head(body).body, 1, TRUE), LAMBDA r :
                IF r.exc # "" THEN r
                ELSE Module_body(r.cs, Tail(body),
                        Append(functions,
                               "fn main() {\n"
                               \o Join("\n", (IF setup_body # <<>> THEN <<"    setup();">>
                                              ELSE <<>>) \o r.text)
                               \o "\n}"),
                        setup_body, setup_func))
         ELSE Bind(emit_statement(cs, Head(body), 1), LAMBDA r :
                IF r.exc # "" THEN r
                ELSE Module_body(r.cs, Tail(body), Append(functions, r.text), setup_body,
                                 SetupFunc(setup_body)))
    ELSE Bind(emit_statement(cs, Head(body), 1), LAMBDA r :
           IF r.exc # "" THEN r
           ELSE Module_body(r.cs, Tail(body), functions, Append(setup_body, r.text),
                            SetupFunc(Append(setup_body, r.text))))

\* the loop of TsuchinokoCompare.emit_rust over zip(ops, comparators); left is
\* the text of node.left
Compare_pairs(cs, left, ops, comparators, comparisons) ==
    IF ops = <<>> \/ comparators = <<>> THEN Text(cs, Join(" && ", comparisons))
    ELSE Bind(emit(cs, Head(comparators), 0), LAMBDA r :
           IF r.exc # "" THEN r
           ELSE Compare_pairs(r.cs, left, Tail(ops), Tail(comparators),
                    Append(comparisons,
                           left \o " " \o CmpOperator(Head(ops)) \o " " \o r.text)))

\* the loop of TsuchinokoPrint.emit_rust and the println! it builds
Print_args(cs, args, fmt_parts, expr_parts) ==
    IF args = <<>>
    THEN Text(cs, IF expr_parts # <<>>
                  THEN "println!(\"" \o Join(" ", fmt_parts) \o "\", "
                       \o Join(", ", expr_parts) \o ");"
                  ELSE "println!(\"" \o Join(" ", fmt_parts) \o "\");")
    ELSE IF Head(args).t = "Constant" /\ Head(args).value.t = "str"
    THEN Print_args(cs, Tail(args), Append(fmt_parts, Head(args).value.v), expr_parts)
    ELSE Bind(emit(cs, Head(args), 0), LAMBDA r :
           IF r.exc # "" THEN r
           ELSE IF In("vec!", r.text) \/ In("Vec", r.text)
           THEN Print_args([r.cs EXCEPT !.log = Append(@, r.text)], Tail(args),
                           Append(fmt_parts, "{:?}"), Append(expr_parts, r.text))
           ELSE Print_args([r.cs EXCEPT !.log = @ \o <<r.text, "nashi">>], Tail(args),
                           Append(fmt_parts, "{}"), Append(expr_parts, r.text)))

\* emit_rust() of an instance of cls made for node
emit_rust(cs, cls, node, node_id, indent_level) ==
    CASE cls = "TsuchinokoModule" ->
           Module_body(cs, node.body, <<>>, <<>>, Unbound)
      [] cls = "TsuchinokoFunctionDef" ->
           Bind(emit_all(cs, node.body, indent_level + 1, TRUE), LAMBDA b :
             IF b.exc # "" THEN b
             ELSE Text(b.cs,
                    ToString(node_id) \o "fn " \o node.name \o "("
                    \o Join(", ", [i \in 1..Len(node.args) |-> node.args[i] \o ": i32"])
                    \o ") {\n"
                    \o Join("\n", [i \in 1..Len(b.text) |->
                                      Times(INDENT, indent_level) \o b.text[i]])
                    \o "\n}"))
      [] cls = "TsuchinokoAssign" ->
           Bind(emit(cs, node.targets[1], 0), LAMBDA target :
             IF target.exc # "" THEN target
             ELSE Bind(emit(target.cs, node.value, 0), LAMBDA value :
               IF value.exc # "" THEN value
               ELSE IF node.targets[1].t = "Tuple"
               THEN Text(value.cs, "(" \o target.text \o ") = " \o value.text \o ";")
               ELSE IF target.text \notin value.cs.dv
               THEN Text([value.cs EXCEPT !.dv = @ \cup {target.text}],
                         "let mut " \o target.text \o " = " \o value.text \o ";")
               ELSE Text(value.cs, target.text \o " = " \o value.text \o ";")))
      [] cls = "TsuchinokoExpr" ->
           Bind(emit(cs, node.value, 0), LAMBDA r :
             IF r.exc # "" THEN r ELSE Text(r.cs, r.text \o ";"))
      [] cls = "TsuchinokoCall" ->
           Bind(emit(cs, node.func, 0), LAMBDA func :
             IF func.exc # "" THEN func
             ELSE Bind(emit_all(func.cs, node.args, 0, FALSE), LAMBDA args :
               IF args.exc # "" THEN args
               ELSE Text(args.cs, func.text \o "(" \o Join(", ", args.text) \o ")")))
      [] cls = "TsuchinokoReturn" ->
           IF node.value = Missing THEN Text(cs, "return;")
           ELSE Bind(emit(cs, node.value, 0), LAMBDA r :
                  IF r.exc # "" THEN r ELSE Text(r.cs, "return " \o r.text \o ";"))
      [] cls = "TsuchinokoName" -> Text(cs, ToString(node_id) \o node.id)
      [] cls = "TsuchinokoConstant" ->
           Text(cs, IF node.value.t = "str" THEN "\"" \o node.value.v \o "\""
                    ELSE ConstStr(node.value))
      [] cls = "TsuchinokoBinOp" ->
           Bind(emit(cs, node.left, 0), LAMBDA left :
             IF left.exc # "" THEN left
             ELSE Bind(emit(left.cs, node.right, 0), LAMBDA right :
               IF right.exc # "" THEN right
               ELSE Text(right.cs, "(" \o left.text \o " " \o BinOperator(node.op)
                                   \o " " \o right.text \o ")")))
      [] cls = "TsuchinokoCompare" ->
           Bind(emit(cs, node.left, 0), LAMBDA left :
             IF left.exc # "" THEN left
             ELSE Compare_pairs(left.cs, left.text, node.ops, node.comparators, <<>>))
      [] cls = "TsuchinokoIf" ->
           Bind(emit(cs, node.test, 0), LAMBDA test :
             IF test.exc # "" THEN test
             ELSE Bind(emit_all(test.cs, node.body, indent_level + 1, TRUE), LAMBDA body :
               IF body.exc # "" THEN body
               ELSE IF node.orelse = <<>>
               THEN Text(body.cs, ToString(node_id) \o " if " \o test.text \o " {\n"
                           \o Join("\n", body.text) \o "\n"
                           \o Times(INDENT, indent_level) \o "}")
               ELSE Bind(emit_all(body.cs, node.orelse, indent_level + 1, TRUE),
                         LAMBDA orelse :
                      IF orelse.exc # "" THEN orelse
                      ELSE Text(orelse.cs, "if " \o test.text \o " {\n"
                             \o Join("\n", body.text) \o "\n"
                             \o Times(INDENT, indent_level) \o "} else {\n"
                             \o Join("\n", orelse.text) \o "\n"
                             \o Times(INDENT, indent_level) \o "}"))))
      [] cls = "TsuchinokoFor" ->
           Bind(emit(cs, node.target, 0), LAMBDA target :
             IF target.exc # "" THEN target
             ELSE Bind(emit(target.cs, node.iter, 0), LAMBDA iter_expr :
               IF iter_expr.exc # "" THEN iter_expr
               ELSE Bind(emit_all(iter_expr.cs, node.body, indent_level + 1, TRUE),
                         LAMBDA body :
                 IF body.exc # "" THEN body
                 ELSE Text(body.cs, ToString(node_id) \o " for " \o target.text \o " in "
                             \o iter_expr.text \o " {\n" \o Join("\n", body.text) \o "\n"
                             \o Times(INDENT, indent_level) \o "}"))))
      [] cls = "TsuchinokoTuple" ->
           Bind(emit_all(cs, node.elts, 0, FALSE), LAMBDA e :
             IF e.exc # "" THEN e ELSE Text(e.cs, "(" \o Join(", ", e.text) \o ")"))
      [] cls = "TsuchinokoList" ->
           Bind(emit_all(cs, node.elts, 0, FALSE), LAMBDA e :
             IF e.exc # "" THEN e ELSE Text(e.cs, "vec![" \o Join(", ", e.text) \o "]"))
      [] cls = "TsuchinokoSubscript" ->
           Bind(emit(cs, node.value, 0), LAMBDA value :
             IF value.exc # "" THEN value
             ELSE Bind(emit(value.cs, node.slice, 0), LAMBDA index :
               IF index.exc # "" THEN index
               ELSE Text(index.cs, value.text \o "[" \o index.text \o "]")))
      [] cls = "TsuchinokoAttribute" ->
           Bind(emit(cs, node.value, 0), LAMBDA value :
             IF value.exc # "" THEN value
             ELSE Text(value.cs, value.text \o "." \o node.attr))
      [] cls = "TsuchinokoPrint" -> Print_args(cs, node.args, <<>>, <<>>)
      [] cls = "TsuchinokoCallList" ->
           IF node.args = <<>> THEN Fail(cs, "IndexError")
           ELSE Bind(emit(cs, node.args[1], 0), LAMBDA a :
                  IF a.exc # "" THEN a ELSE Text(a.cs, "Vec::from(" \o a.text \o ")"))
      [] cls = "TsuchinokoCallLen" ->
           IF node.args = <<>> THEN Fail(cs, "IndexError")
           ELSE Bind(emit(cs, node.args[1], 0), LAMBDA a :
                  IF a.exc # "" THEN a ELSE Text(a.cs, a.text \o ".len()"))
      [] cls = "TsuchinokoContinue" -> Text(cs, "continue;")
      [] cls = "TsuchinokoCallRange" ->
           IF Len(node.args) \notin {1, 2, 3} THEN Fail(cs, "UnboundLocalError")
           ELSE Bind(emit_all(cs, node.args, 0, FALSE), LAMBDA a :
                  IF a.exc # "" THEN a
                  ELSE IF Len(node.args) = 1 THEN Text(a.cs, "0.." \o a.text[1])
                  ELSE IF Len(node.args) = 2
                  THEN Text(a.cs, a.text[1] \o ".." \o a.text[2])
                  ELSE Text(a.cs, "(" \o a.text[1] \o ".." \o a.text[2] \o ").step_by("
                                  \o a.text[3] \o " as usize)"))

\* compile_python_to_rust(source_code), the source given as the tree ast.parse
\* makes of it: the module always matches, normalize() does nothing
compile_python_to_rust(cs, tree) == emit(cs, tree, 0)

\* the trees the calls are given.  print("..."), as a statement
ast_Name(id)        == [t |-> "Name", id |-> id]
ast_Constant(value) == [t |-> "Constant", value |-> value]
ast_Call(func, args) == [t |-> "Call", func |-> func, args |-> args]
ast_Expr(value)     == [t |-> "Expr", value |-> value]
ast_Compare(left, ops, comparators) ==
    [t |-> "Compare", left |-> left, ops |-> ops, comparators |-> comparators]
ast_If(test, body, orelse) == [t |-> "If", test |-> test, body |-> body, orelse |-> orelse]
ast_Module(body)    == [t |-> "Module", body |-> body]
Say(text)       == ast_Expr(ast_Call(ast_Name("print"), <<ast_Constant(PyStr(text))>>))

\* if __name__ == "__main__": print("go")
Guard == ast_If(ast_Compare(ast_Name("__name__"), <<"Eq">>, <<ast_Constant(PyStr("__main__"))>>),
            <<Say("go")>>, <<>>)
\* def f(x): return x
DefF == [t |-> "FunctionDef", name |-> "f", args |-> <<"x">>,
         body |-> <<[t |-> "Return", value |-> ast_Name("x")]>>]
\* if 1 < 2: print("a") else: print("b")
Branch == ast_If(ast_Compare(ast_Constant(PyInt(1)), <<"Lt">>, <<ast_Constant(PyInt(2))>>),
             <<Say("a")>>, <<Say("b")>>)
\* while x: continue
While == [t |-> "While", test |-> ast_Name("x"), body |-> <<[t |-> "Continue"]>>,
          orelse |-> <<>>]
\* x = 2 ** 3
AssignPow == [t |-> "Assign", targets |-> <<ast_Name("x")>>,
              value |-> [t |-> "BinOp", left |-> ast_Constant(PyInt(2)), op |-> "Pow",
                         right |-> ast_Constant(PyInt(3))]]
\* 1 < 3 < 2
Chain == ast_Compare(ast_Constant(PyInt(1)), <<"Lt", "Lt">>,
                 <<ast_Constant(PyInt(3)), ast_Constant(PyInt(2))>>)

\* the modules compile_python_to_rust is given
Sources ==
    {ast_Module(body) : body \in
        {<<>>, <<Guard>>, <<Say("hi")>>, <<DefF>>, <<While>>, <<AssignPow>>,
         <<ast_Expr(Chain)>>,
         <<Say("hi"), Guard>>, <<Guard, Say("hi")>>, <<DefF, Guard>>, <<Branch, Guard>>,
         <<Say("hi"), Guard, Say("yo")>>, <<Say("hi"), Say("yo"), Guard>>,
         <<DefF, Say("hi"), Guard>>}}

\* the nodes match_node is given on its own
AstNodes ==
    {ast_Call(ast_Name(f), <<ast_Name("x")>>) : f \in {"print", "list", "len", "range", "f"}}
    \cup {ast_Call([t |-> "Attribute", value |-> ast_Name("a"), attr |-> "print"], <<ast_Name("x")>>),
          ast_Call(ast_Name("range"), <<>>), ast_Call(ast_Name("len"), <<>>),
          ast_Call(ast_Name("range"), <<ast_Constant(PyInt(0)), ast_Name("n"), ast_Constant(PyInt(2))>>),
          ast_Call(ast_Name("print"), <<[t |-> "List", elts |-> <<ast_Constant(PyInt(1))>>], ast_Name("x")>>),
          Chain,
          ast_Compare(ast_Name("a"), <<"Lt", "LtE">>, <<ast_Name("b"), ast_Name("c")>>),
          ast_Compare(ast_Constant(PyInt(1)), <<"In">>, <<ast_Name("y")>>),
          ast_Compare(ast_Constant(PyInt(1)), <<"Lt">>, <<ast_Constant(PyInt(2))>>),
          [t |-> "UnaryOp", op |-> "USub", operand |-> ast_Constant(PyInt(1))],
          [t |-> "None"],
          [t |-> "Assign", targets |-> <<[t |-> "Attribute", value |-> ast_Constant(PyInt(1)),
                                          attr |-> "y"]>>,
           value |-> ast_Constant(PyBool(TRUE))],
          [t |-> "Assign", targets |-> <<[t |-> "Tuple", elts |-> <<ast_Name("a"), ast_Name("b")>>]>>,
           value |-> [t |-> "Subscript", value |-> ast_Name("p"), slice |-> ast_Constant(PyInt(0))]],
          [t |-> "For", target |-> ast_Name("i"), iter |-> ast_Call(ast_Name("range"), <<ast_Name("n")>>),
           body |-> <<[t |-> "Continue"]>>],
          [t |-> "Return", value |-> Missing],
          ast_If(ast_Name("x"), <<AssignPow>>, <<>>),
          Guard, DefF, While, ast_Module(<<DefF>>)}

MaxCalls == 2

InitCompiler ==
    /\ SESSIONS = EmptyMap /\ heap = <<>> /\ uuid = 0
    /\ pc = "compiler" /\ line = NoLine /\ out = <<>>
    /\ reflect = {} /\ iterlog = <<>> /\ issued = EmptyMap
    /\ arg = NoCall /\ tnk = NoCall /\ ret = NoCall
    /\ _objects = EmptyMap /\ _next_id = 0 /\ installed = {}
    /\ stored = <<>> /\ done = NoCall
    /\ id_counter = 0 /\ declared_vars = {} /\ compiled = <<>>
    /\ scope_tree = EmptyMap /\ var_table = EmptyMap

\* the classes' state as a call finds it
Classes == [n |-> id_counter, dv |-> declared_vars, log |-> <<>>,
            tree |-> scope_tree, sp |-> PyNone]

\* text = compile_python_to_rust(source)
CompilePythonToRust ==
    /\ Len(compiled) < MaxCalls
    /\ \E tree \in Sources :
          LET r == compile_python_to_rust(Classes, tree)
          IN  /\ id_counter' = r.cs.n
              /\ declared_vars' = r.cs.dv
              /\ scope_tree' = r.cs.tree
              /\ compiled' = Append(compiled,
                    [op |-> "compile", node |-> tree, cls |-> "TsuchinokoModule",
                     text |-> r.text, exc |-> r.exc, log |-> r.cs.log])
    /\ UNCHANGED <<Apart, legacy, var_table>>

\* obj = match_node(node), and obj.emit_rust() when there is an obj
MatchNode ==
    /\ Len(compiled) < MaxCalls
    /\ \E node \in AstNodes :
          LET m == match_node(Classes, node)
              r == IF m.cls = "None" THEN Text(m.cs, "")
                   ELSE emit_rust([m.cs EXCEPT !.sp = PyInt(m.node_id)], m.cls, node,
                                  m.node_id, 0)
          IN  /\ id_counter' = r.cs.n
              /\ declared_vars' = r.cs.dv
              /\ scope_tree' = r.cs.tree
              /\ compiled' = Append(compiled,
                    [op |-> "match", node |-> node, cls |-> m.cls,
                     text |-> r.text, exc |-> r.exc, log |-> r.cs.log])
    /\ UNCHANGED <<Apart, legacy, var_table>>

NextCompiler ==
    \/ CompilePythonToRust
    \/ MatchNode

Compiler == InitCompiler /\ [][NextCompiler]_vars

\* ------------------------------------------------- the compiler: the scope tree
\* compile_python_to_rust together with the class methods of TsuchinokoName
\* that keep and look up declarations.
ScopeNames == {"x"}

\* TsuchinokoName.register(name, var_type)
register(vt, name, var_type) ==
    IF name \notin DOMAIN vt
    THEN Put(vt, name, PyDict(<<[key |-> PyStr("scope_id"), value |-> PyBool(TRUE)],
                                [key |-> PyStr("type"), value |-> PyStr(var_type)]>>))
    ELSE vt

\* what `for var in candidates` goes through: the keys of a dict, the items of a list
Iterated(candidates) ==
    IF candidates.t = "dict"
    THEN [i \in 1..Len(candidates.items) |-> candidates.items[i].key]
    ELSE candidates.items

\* var["scope_id"] for a var that is a dict
ScopeIdOf(var) ==
    (var.items[CHOOSE i \in 1..Len(var.items) : var.items[i].key = PyStr("scope_id")]).value

\* for var in candidates: if var["scope_id"] == from_scope: return var
\* hit: the loop returned var; exc: indexing a var that is a str raised
RECURSIVE ScanCandidates(_, _)
ScanCandidates(vs, from_scope) ==
    IF vs = <<>> THEN [exc |-> "", hit |-> FALSE, val |-> PyNone]
    ELSE IF Head(vs).t # "dict" THEN [exc |-> "TypeError", hit |-> FALSE, val |-> PyNone]
    ELSE IF PyEq(ScopeIdOf(Head(vs)), from_scope)
    THEN [exc |-> "", hit |-> TRUE, val |-> Head(vs)]
    ELSE ScanCandidates(Tail(vs), from_scope)

\* the while loop of where_declared; steps counts the scopes left behind
RECURSIVE WalkAncestors(_, _, _, _)
WalkAncestors(tree, candidates, from_scope, steps) ==
    IF from_scope = PyNone THEN [exc |-> "", val |-> PyNone, steps |-> steps]
    ELSE LET scan == ScanCandidates(Iterated(candidates), from_scope)
         IN  IF scan.exc # "" THEN [exc |-> scan.exc, val |-> PyNone, steps |-> steps]
             ELSE IF scan.hit THEN [exc |-> "", val |-> scan.val, steps |-> steps]
             ELSE WalkAncestors(tree, candidates,
                                IF from_scope.v \in DOMAIN tree THEN tree[from_scope.v]
                                ELSE PyNone,
                                steps + 1)

\* TsuchinokoName.where_declared(name, current_scope_id)
where_declared(vt, tree, name, current_scope_id) ==
    IF name \notin DOMAIN vt THEN [exc |-> "", val |-> PyNone, steps |-> 0]
    ELSE WalkAncestors(tree, vt[name], current_scope_id, 0)

Register ==
    \E name \in ScopeNames :
        /\ name \notin DOMAIN var_table
        /\ var_table' = register(var_table, name, "i32")
        /\ UNCHANGED <<Apart, legacy, id_counter, declared_vars, compiled, scope_tree>>

\* ret = where_declared(name, current_scope_id), for the scope of a node or None
WhereDeclared ==
    \E name \in ScopeNames, scope \in {PyNone} \cup {PyInt(k) : k \in DOMAIN scope_tree} :
        /\ arg' = [name |-> name, current_scope_id |-> scope]
        /\ ret' = where_declared(var_table, scope_tree, name, scope)
        /\ UNCHANGED <<SESSIONS, heap, uuid, pc, line, out, reflect, iterlog, issued, tnk,
                       legacy, unit>>

NextScopes ==
    \/ CompilePythonToRust
    \/ Register
    \/ WhereDeclared

Scopes == InitCompiler /\ [][NextScopes]_vars

\* ------------------------------------------------- iterators of one range
\* A session that holds one range, and the iter and iter_next_batch requests on it
\* and on the iterators made from it.
MaxIters == 3       \* handle ids such a run may issue

IterTargets == {HId(k) : k \in 1..MaxIters} \cup {ItId(k) : k \in 2..MaxIters}

\* the worker after call_function builtins.range(n) in session s1, response read
InitIterators ==
    \E n \in 1..MaxN :
        LET m == main([S |-> EmptyMap, H |-> <<>>, U |-> 0, E |-> {}],
                      Line(CF("s1", Dotted("builtins", "range"), <<TV(PyInt(n))>>)))
        IN  /\ SESSIONS = m.st.S
            /\ heap = m.st.H
            /\ uuid = m.st.U
            /\ issued = [id \in DOMAIN m.st.S["s1"].objects |-> "s1"]
            /\ iterlog = <<>>
            /\ pc = "read"
            /\ line = NoLine
            /\ out = <<>>
            /\ reflect = {}
            /\ arg = NoCall /\ tnk = NoCall /\ ret = NoCall
            /\ _objects = EmptyMap /\ _next_id = 0 /\ installed = {}
            /\ stored = <<>> /\ done = NoCall
            /\ id_counter = 0 /\ declared_vars = {} /\ compiled = <<>>
    /\ scope_tree = EmptyMap /\ var_table = EmptyMap

StepWithin(l, ids) ==
    HandledWithin(l, main([S |-> SESSIONS, H |-> heap, U |-> uuid, E |-> {}], l), ids)

IterOfTarget ==
    \E id \in IterTargets :
        /\ pc = "read"
        /\ StepWithin(Line(Cmd("iter", "s1", Target(id))), MaxIters)

NextBatchOfTarget ==
    \E id \in IterTargets, n \in 1..MaxN :
        /\ pc = "read"
        /\ StepWithin(Line(NB("s1", Target(id), PyInt(n))), MaxIters)

\* call_method __iter__: on an iterator it returns its receiver
IterMethodOfTarget ==
    \E id \in IterTargets :
        /\ pc = "read"
        /\ StepWithin(Line(CM("s1", Target(id), Dunder("iter"), <<>>)), MaxIters)

DeleteOfTarget ==
    \E id \in IterTargets :
        /\ pc = "read"
        /\ StepWithin(Line(Cmd("delete", "s1", Target(id))), MaxIters)

NextIterators ==
    \/ IterOfTarget
    \/ NextBatchOfTarget
    \/ IterMethodOfTarget
    \/ DeleteOfTarget
    \/ ClientReadsResponse

Iterators == InitIterators /\ [][NextIterators]_vars

\* ------------------------------------------------- make_response on its own
ReqIds  == {"r1", NoReqId}
Values  == {PyNone, TV(PyInt(1))}
Metas   == {PyNone, [done |-> TRUE]}
Errors  == {PyNone, PyDict(<<>>), Err("TestError", "", "test"),
            Err("PythonException", "ValueError", "")}
OpInfos == {PyNone, PyDict(<<>>),
            [cmd |-> "get_item", target |-> PyStr(<<"obj_1">>), key |-> TV(PyInt(999))]}

InitResponses ==
    /\ SESSIONS = EmptyMap /\ heap = <<>> /\ uuid = 0
    /\ line = NoLine /\ out = <<>> /\ reflect = {}
    /\ iterlog = <<>> /\ issued = EmptyMap
    /\ pc = "respond"
    /\ \E r \in ReqIds, v \in Values, m \in Metas, e \in Errors, o \in OpInfos :
          arg = [req_id |-> r, value |-> v, meta |-> m, error |-> e, op_info |-> o]
    /\ tnk = NoCall /\ ret = NoCall
    /\ _objects = EmptyMap /\ _next_id = 0 /\ installed = {}
    /\ stored = <<>> /\ done = NoCall
    /\ id_counter = 0 /\ declared_vars = {} /\ compiled = <<>>
    /\ scope_tree = EmptyMap /\ var_table = EmptyMap

\* ret = make_response(req_id, value, meta, error, op_info)
MakeResponse ==
    /\ pc = "respond"
    /\ ret' = make_response(arg.req_id, arg.value, arg.meta, arg.error, arg.op_info)
    /\ pc' = "responded"
    /\ UNCHANGED <<SESSIONS, heap, uuid, line, out, reflect, iterlog, issued, arg, tnk,
                   legacy, unit>>

NextResponses == MakeResponse

Responses == InitResponses /\ [][NextResponses]_vars

\* ------------------------------------------------- a chain over a held range
\* A session that holds one range and an itertools.chain made from it, and the
\* iter_next_batch and delete requests on the ids of the session.
MaxChained == 4     \* handle ids such a run may issue

ChainTargets == {HId(k) : k \in 1..MaxChained}

\* the arguments of the chain: the held range inside a list, or the range itself,
\* then nothing more or an int, which is not iterable
ChainArgs ==
    { <<[kind |-> "list", items |-> <<AHandle>>], TV(PyInt(5))>>,
      <<[kind |-> "list", items |-> <<AHandle>>]>>,
      <<AHandle, TV(PyInt(5))>>,
      <<AHandle>> }

\* the worker after call_function builtins.range(n) and then call_function
\* itertools.chain(*args) in session s1, both responses read
InitChains ==
    \E n \in 1..MaxN, args \in ChainArgs :
        LET m1 == main([S |-> EmptyMap, H |-> <<>>, U |-> 0, E |-> {}],
                       Line(CF("s1", Dotted("builtins", "range"), <<TV(PyInt(n))>>)))
            m  == main([m1.st EXCEPT !.E = {}],
                       Line(CF("s1", Dotted("itertools", "chain"), args)))
        IN  /\ SESSIONS = m.st.S
            /\ heap = m.st.H
            /\ uuid = m.st.U
            /\ issued = [id \in DOMAIN m.st.S["s1"].objects |-> "s1"]
            /\ iterlog = [a \in 1..Len(m.st.H) |-> [items |-> <<>>, done |-> FALSE, asked |-> FALSE]]
            /\ pc = "read"
            /\ line = NoLine
            /\ out = <<>>
            /\ reflect = {}
            /\ arg = NoCall /\ tnk = NoCall /\ ret = NoCall
            /\ _objects = EmptyMap /\ _next_id = 0 /\ installed = {}
            /\ stored = <<>> /\ done = NoCall
            /\ id_counter = 0 /\ declared_vars = {} /\ compiled = <<>>
    /\ scope_tree = EmptyMap /\ var_table = EmptyMap

NextBatchOfChain ==
    \E id \in ChainTargets, n \in 1..MaxN :
        /\ pc = "read"
        /\ StepWithin(Line(NB("s1", Target(id), PyInt(n))), MaxChained)

DeleteOfChain ==
    \E id \in ChainTargets :
        /\ pc = "read"
        /\ StepWithin(Line(Cmd("delete", "s1", Target(id))), MaxChained)

NextChains ==
    \/ NextBatchOfChain
    \/ DeleteOfChain
    \/ ClientReadsResponse

Chains == InitChains /\ [][NextChains]_vars

\* ------------------------------------------------- a client draining one iterator
\* A session that holds a range and one iterator over it, and a client that
\* repeats one iter_next_batch request on the iterator until a response tells
\* it to stop: meta.done = true, or an error.
MaxDrain == 4       \* the longest range, and the largest batch_size

DrainBatches == {Absent, PyNone} \cup {PyInt(k) : k \in -1..MaxDrain}

\* the worker after call_function builtins.range(n) and iter on its handle, both
\* responses read; arg is the request the client is about to repeat
InitDrain ==
    \E n \in 0..MaxDrain, b \in DrainBatches :
        LET m1 == main([S |-> EmptyMap, H |-> <<>>, U |-> 0, E |-> {}],
                       Line(CF("s1", Dotted("builtins", "range"), <<TV(PyInt(n))>>)))
            m  == main([m1.st EXCEPT !.E = {}], Line(Cmd("iter", "s1", Target(HId(1)))))
        IN  /\ SESSIONS = m.st.S
            /\ heap = m.st.H
            /\ uuid = m.st.U
            /\ issued = [id \in DOMAIN m.st.S["s1"].objects |-> "s1"]
            /\ iterlog = [a \in 1..Len(m.st.H) |-> [items |-> <<>>, done |-> FALSE, asked |-> FALSE]]
            /\ pc = "read"
            /\ line = NoLine
            /\ out = <<>>
            /\ reflect = {}
            /\ arg = NB("s1", Target(ItId(2)), b)
            /\ tnk = NoCall /\ ret = NoCall
            /\ _objects = EmptyMap /\ _next_id = 0 /\ installed = {}
            /\ stored = <<>> /\ done = NoCall
            /\ id_counter = 0 /\ declared_vars = {} /\ compiled = <<>>
    /\ scope_tree = EmptyMap /\ var_table = EmptyMap

\* the client sends its request once more and the worker answers it
RepeatNextBatch ==
    /\ pc = "read"
    /\ StepWithin(Line(arg), MaxIters)

\* the client reads the response and leaves its loop on done or on an error
ClientReadsBatch ==
    /\ pc = "written"
    /\ pc' = CASE out[1].kind = "error" -> "failed"
               [] out[1].meta.done      -> "drained"
               [] OTHER                 -> "read"
    /\ line' = NoLine
    /\ out' = <<>>
    /\ reflect' = {}
    /\ UNCHANGED <<SESSIONS, heap, uuid, iterlog, issued, trip, legacy, unit>>

NextDrain ==
    \/ RepeatNextBatch
    \/ ClientReadsBatch

Drain == InitDrain /\ [][NextDrain]_vars

\* a line is sent and answered: RepeatNextBatch seen through pc alone
LineAnswered == pc = "read" /\ pc' = "written"

\* the client and the worker both keep going: the client sends again until it
\* has left its loop, the worker's loop answers every line it is sent, and the
\* client reads every response
DrainFair == Drain /\ WF_pc(LineAnswered) /\ WF_vars(ClientReadsBatch)

\* ------------------------------------------------- an exhausted iterator
\* A session that holds a range and an iterator over it that has reported
\* meta.done = true, and the iter_next_batch and delete requests that follow.
ExhaustedIds == {HId(1), ItId(2)}

FurtherBatches == {Absent} \cup {PyInt(k) : k \in 1..MaxN}

\* the worker after call_function builtins.range(n), iter on its handle, and an
\* iter_next_batch of the default batch_size, which takes every item and reports
\* done; the three responses read
InitExhausted ==
    \E n \in 0..MaxDrain :
        LET m1 == main([S |-> EmptyMap, H |-> <<>>, U |-> 0, E |-> {}],
                       Line(CF("s1", Dotted("builtins", "range"), <<TV(PyInt(n))>>)))
            m2 == main([m1.st EXCEPT !.E = {}], Line(Cmd("iter", "s1", Target(HId(1)))))
            m  == main([m2.st EXCEPT !.E = {}], Line(NB("s1", Target(ItId(2)), Absent)))
        IN  /\ m.out[1].kind = "ok" /\ m.out[1].meta.done
            /\ SESSIONS = m.st.S
            /\ heap = m.st.H
            /\ uuid = m.st.U
            /\ issued = [id \in DOMAIN m.st.S["s1"].objects |-> "s1"]
            /\ iterlog = [a \in 1..Len(m.st.H) |->
                            [items |-> m.out[1].value.items, done |-> TRUE, asked |-> TRUE]]
            /\ pc = "read"
            /\ line = NoLine
            /\ out = <<>>
            /\ reflect = {}
            /\ arg = NoCall /\ tnk = NoCall /\ ret = NoCall
            /\ _objects = EmptyMap /\ _next_id = 0 /\ installed = {}
            /\ stored = <<>> /\ done = NoCall
            /\ id_counter = 0 /\ declared_vars = {} /\ compiled = <<>>
    /\ scope_tree = EmptyMap /\ var_table = EmptyMap

FurtherNextBatch ==
    \E s \in {"s1", "s2"}, id \in ExhaustedIds, b \in FurtherBatches :
        /\ pc = "read"
        /\ StepWithin(Line(NB(s, Target(id), b)), MaxIters)

DeleteOfExhausted ==
    \E s \in {"s1", "s2"}, id \in ExhaustedIds :
        /\ pc = "read"
        /\ StepWithin(Line(Cmd("delete", s, Target(id))), MaxIters)

NextExhausted ==
    \/ FurtherNextBatch
    \/ DeleteOfExhausted
    \/ ClientReadsResponse

Exhausted == InitExhausted /\ [][NextExhausted]_vars

\* ------------------------------------------------- decoding a handle value
\* decode_value called on a handle value, bare or inside a list, for every
\* session_id field the value can carry and every session a request can name.
HandleSessions == {"s1", "s2"}

\* the session_id field of a handle value: missing, empty, a session, no session
SessionFields == {NoSession, "", "s1", "s2", "zzz"}

\* the stores in which each id issued so far is held by one session or deleted;
\* the object under the k-th id is range(k)
HandleStores ==
    {[s \in HandleSessions |->
         [objects |-> [id \in {HId(k) : k \in {j \in 1..MaxHandles : f[j] = s}} |->
                          PyRange(0, CHOOSE k \in 1..MaxHandles : HId(k) = id, 1)],
          modules |-> EmptyMap]] :
       f \in [1..MaxHandles -> HandleSessions \cup {"gone"}]}

InitDecoding ==
    /\ SESSIONS \in HandleStores
    /\ uuid = MaxHandles
    /\ issued = [id \in {p[1] : p \in Held(SESSIONS)} |->
                    CHOOSE s \in HandleSessions : id \in DOMAIN SESSIONS[s].objects]
    /\ heap = <<>> /\ iterlog = <<>>
    /\ line = NoLine /\ out = <<>> /\ reflect = {}
    /\ pc = "decode"
    /\ \E s \in HandleSessions : arg = [v |-> NoCall, session_id |-> s]
    /\ \E k \in 1..MaxHandles, f \in SessionFields :
          tnk \in {TH(HId(k), f), [kind |-> "list", items |-> <<TH(HId(k), f)>>]}
    /\ ret = NoCall
    /\ _objects = EmptyMap /\ _next_id = 0 /\ installed = {}
    /\ stored = <<>> /\ done = NoCall
    /\ id_counter = 0 /\ declared_vars = {} /\ compiled = <<>>
    /\ scope_tree = EmptyMap /\ var_table = EmptyMap

NextDecoding == DecodeValue

Decoding == InitDecoding /\ [][NextDecoding]_vars

\* ------------------------------------------------- vocabulary of the properties
Answered == pc = "written" /\ line.kind = "object"
Req  == line.cmd
Resp == out[1]

Code(r) == IF r.kind = "error" THEN r.error.code ELSE "ok"

\* the commands that act on a held object
TargetCmds == {"call_method", "get_attribute", "get_item", "slice", "iter",
               "iter_next_batch"}

LiveIn(S, s, id) == id \in DOMAIN Objects(S, s)

\* the request carries every key its handler subscripts
HasFields(cmd) ==
    /\ cmd.session_id # NoSession
    /\ cmd.target # Absent
    /\ cmd.cmd \in {"call_function", "call_method"} => cmd.args # Absent
    /\ cmd.cmd = "call_method" => cmd.method # Absent
    /\ cmd.cmd = "get_attribute" => cmd.name # Absent
    /\ cmd.cmd = "get_item" => cmd.key # Absent
    /\ cmd.cmd = "slice" => cmd.start # Absent /\ cmd.stop # Absent /\ cmd.step # Absent

\* the encoded values a request carries, outside its target
Carried(cmd) ==
    (IF cmd.args = Absent THEN {} ELSE {cmd.args.items[i] : i \in 1..Len(cmd.args.items)})
    \cup {Items(cmd.kwargs)[i] : i \in 1..Len(Items(cmd.kwargs))}
    \cup ({cmd.key, cmd.start, cmd.stop, cmd.step} \ {Absent})

\* a handle value that is not live in the session of the request
StaleValue(S, cmd, v) == v.kind = "handle" /\ ~LiveIn(S, cmd.session_id, v.id)

\* a slice bound the handler accepts: None, an integer, or a live handle int() converts
GoodBound(S, cmd, b) ==
    \/ b.kind = "value" /\ b.value.t \in {"none", "int"}
    \/ /\ b.kind = "handle" /\ LiveIn(S, cmd.session_id, b.id)
       /\ Objects(S, cmd.session_id)[b.id].t \in {"int", "Fraction"}

ZeroStep(S, cmd) ==
    \/ cmd.step = TV(PyInt(0))
    \/ /\ cmd.step.kind = "handle" /\ LiveIn(S, cmd.session_id, cmd.step.id)
       /\ Objects(S, cmd.session_id)[cmd.step.id] = [t |-> "Fraction", v |-> 0]

\* a request that is wrong in nothing but, possibly, its target
Valid(S, cmd) ==
    /\ HasFields(cmd)
    /\ \A v \in Carried(cmd) : v.kind \in {"value", "handle"} /\ ~StaleValue(S, cmd, v)
    /\ cmd.cmd = "slice" =>
         /\ \A b \in {cmd.start, cmd.stop, cmd.step} : GoodBound(S, cmd, b)
         /\ ~ZeroStep(S, cmd)

\* the names the security policy is stated for
ForbiddenNames == {<<"eval">>, <<"exec">>, <<"globals">>, <<"locals">>}
Underscored(name) == name # <<>> /\ Head(name) = "_"
Private(name) == Underscored(name) \/ name \in ForbiddenNames

NonForbidden(cmd) ==
    /\ cmd.cmd = "call_method" => ~Private(cmd.method.v)
    /\ cmd.cmd = "get_attribute" => ~Private(cmd.name.v)

\* the handle maps of the sessions a run uses
HandleMaps(S) == [s \in Sids |-> Objects(S, s)]

\* ------------------------------------------------- C1
\* C1: a handle issued in session s is stale in every other session: an otherwise
\* valid, non-forbidden call_method, get_attribute, get_item, slice, iter or
\* iter_next_batch request of session s' # s that names it as target is answered
\* with an error of code StaleHandle, whatever was processed before.
CrossSession ==
    /\ Answered
    /\ Req.cmd \in TargetCmds
    /\ Valid(SESSIONS, Req)
    /\ NonForbidden(Req)
    /\ Req.target.t = "str"
    /\ Req.target.v \in DOMAIN issued
    /\ issued[Req.target.v] # Req.session_id

C1_SessionIsolation == CrossSession => Resp.kind = "error" /\ Code(Resp) = "StaleHandle"

\* a request of another session names a handle that is live in the session that owns it
C1_Witness ==
    /\ CrossSession
    /\ LiveIn(SESSIONS, issued[Req.target.v], Req.target.v)
    /\ Req.cmd = "call_method"
    /\ Code(Resp) = "StaleHandle"

\* ------------------------------------------------- C2
\* C2: a handle issued in session s is live until a delete for it in s is processed
\* (no request of s that targets it is answered StaleHandle before), the delete is
\* answered ok, and every later call_method, get_attribute, get_item, slice, iter or
\* iter_next_batch of s that targets it is answered StaleHandle.  The requests are
\* taken to carry all their keys, no private or forbidden name and acceptable slice
\* bounds and well-formed encoded values, which leaves open only what those values are.
OwnTarget ==
    /\ Answered
    /\ HasFields(Req)
    /\ Req.target.t = "str"
    /\ Req.target.v \in DOMAIN issued
    /\ issued[Req.target.v] = Req.session_id

Acceptable(cmd) ==
    /\ NonForbidden(cmd)
    /\ \A v \in Carried(cmd) : v.kind \in {"value", "handle"}
    /\ cmd.cmd = "slice" =>
         /\ \A b \in {cmd.start, cmd.stop, cmd.step} : b.kind = "value" /\ b.value.t \in {"none", "int"}
         /\ cmd.step # TV(PyInt(0))

C2_HandleLifecycle ==
    /\ OwnTarget /\ Req.cmd \in TargetCmds /\ LiveIn(SESSIONS, Req.session_id, Req.target.v)
         => Code(Resp) # "StaleHandle"
    /\ OwnTarget /\ Req.cmd = "delete" => Resp.kind = "ok"
    /\ OwnTarget /\ Req.cmd \in TargetCmds /\ Acceptable(Req)
         /\ ~LiveIn(SESSIONS, Req.session_id, Req.target.v)
         => Code(Resp) = "StaleHandle"

\* ------------------------------------------------- C3
\* C3: a get_attribute request (session_id, target and name present) whose name begins
\* with "_" is answered SecurityViolation whether or not its target is live, and
\* handling it looks up no attribute and leaves the store and the id source as they were.
PrivateGet(l) ==
    /\ l.kind = "object"
    /\ l.cmd.cmd = "get_attribute"
    /\ HasFields(l.cmd)
    /\ Underscored(l.cmd.name.v)

C3_PrivateAttribute ==
    [][pc' = "written" /\ PrivateGet(line') =>
          /\ Code(out'[1]) = "SecurityViolation"
          /\ \A e \in reflect' : e.op # "getattr"
          /\ HandleMaps(SESSIONS') = HandleMaps(SESSIONS)
          /\ uuid' = uuid]_vars

\* a private name asked of a live handle
C3_Witness ==
    /\ pc = "written" /\ PrivateGet(line)
    /\ Req.target.t = "str"
    /\ LiveIn(SESSIONS, Req.session_id, Req.target.v)
    /\ Code(Resp) = "SecurityViolation"

\* ------------------------------------------------- C4
\* C4: a call_function, call_method or get_attribute request in which eval, exec,
\* globals, locals or a name starting with "_" is the method, the attribute name or a
\* component of a dotted target (string or module target) is answered
\* SecurityViolation, and no getattr or call on such a name is executed for it.
Components(cmd) ==
    (IF cmd.cmd = "call_function" /\ cmd.target.t = "str"
     THEN {split(cmd.target.v)[i] : i \in 1..Len(split(cmd.target.v))} ELSE {})
    \cup (IF cmd.target.t = "module"
          THEN {split(cmd.target.module)[i] : i \in 1..Len(split(cmd.target.module))}
          ELSE {})
    \cup (IF cmd.method # Absent THEN {cmd.method.v} ELSE {})
    \cup (IF cmd.name # Absent THEN {cmd.name.v} ELSE {})

NamesForbidden ==
    /\ Answered
    /\ Req.cmd \in {"call_function", "call_method", "get_attribute"}
    /\ Valid(SESSIONS, Req)
    /\ \E n \in Components(Req) : Private(n)

C4_NoForbiddenReflection ==
    NamesForbidden =>
        /\ Code(Resp) = "SecurityViolation"
        /\ \A e \in reflect : e.op \in {"getattr", "call"} => ~Private(e.name)

\* ------------------------------------------------- C5
\* C5: no request line makes the worker stop: it leaves its loop only at end of input.
C5_NeverTerminates == pc \in {"exited", "eof"} => pc = "eof"

\* ------------------------------------------------- C6
\* C6: for every non-empty line the worker writes exactly one response line before it
\* reads the next line, and nothing for an empty line, so that the k-th response
\* answers the k-th non-empty line.
C6_OneResponsePerLine ==
    IF line.kind \in {"none", "blank"} THEN out = <<>> ELSE Len(out) = 1

\* ------------------------------------------------- C7
\* C7: the response to a line that parses as a JSON object carries that request's req_id.
C7_ReqIdEchoed == Answered => Resp.req_id = Req.req_id

\* ------------------------------------------------- C8
\* C8: a malformed request (invalid JSON, a JSON value that is no object, an unknown
\* cmd, a known cmd without a key it needs) is answered ProtocolError and leaves every
\* session's handle map unchanged.
Malformed(l) ==
    \/ l.kind \in {"badjson", "nonobject"}
    \/ l.kind = "object" /\ (l.cmd.cmd \notin DISPATCHER \/ ~HasFields(l.cmd))

C8_MalformedIsProtocolError ==
    [][pc' = "written" /\ Malformed(line') =>
          /\ Code(out'[1]) = "ProtocolError"
          /\ HandleMaps(SESSIONS') = HandleMaps(SESSIONS)]_vars

\* ------------------------------------------------- C9
\* C9: a handle that is not live in the session of the request, carried as a
\* positional or keyword argument, a get_item key or a slice bound, makes the request
\* fail with code StaleHandle and the request's req_id, and the operation is not invoked.
CarriesStale ==
    /\ Answered
    /\ Req.cmd \in DISPATCHER
    /\ HasFields(Req)
    /\ NonForbidden(Req)
    /\ \E v \in Carried(Req) : StaleValue(SESSIONS, Req, v)

C9_StaleArgument ==
    CarriesStale =>
        /\ Code(Resp) = "StaleHandle"
        /\ Resp.req_id = Req.req_id
        /\ \A e \in reflect : e.op \notin {"call", "index"}

\* ------------------------------------------------- C10
\* C10: the items the iter_next_batch responses have delivered from an iterator over a
\* range are, in call order, exactly the elements the iterator has passed, in source
\* order; a response says done only when all n elements have been delivered, so a
\* client that stops at the first done has each element once and done once.
Source(a) == [i \in 1..SourceLen(heap[a].r) |-> TV(SourceItem(heap[a].r, i - 1))]

C10_IteratorComplete ==
    \A a \in 1..Len(heap) :
        /\ iterlog[a].items = SubSeq(Source(a), 1, heap[a].pos)
        /\ iterlog[a].done => iterlog[a].items = Source(a)

\* an iterator over MaxN elements drained in more than one batch
C10_Witness ==
    /\ Answered /\ Req.cmd = "iter_next_batch" /\ Resp.kind = "ok"
    /\ Req.batch_size = PyInt(1)
    /\ Resp.meta.done
    /\ \E a \in 1..Len(heap) : iterlog[a].done /\ Len(iterlog[a].items) = MaxN

\* ------------------------------------------------- C11
\* C11: the first iter_next_batch request that names an iterator over an empty
\* sequence is answered ok with no items and meta.done = true, whatever integer
\* batch_size the request carries, the default of an omitted batch_size included.
FirstBatchOfEmpty ==
    /\ pc' = "written" /\ line'.kind = "object"
    /\ line'.cmd.cmd = "iter_next_batch"
    /\ line'.cmd.batch_size = Absent \/ line'.cmd.batch_size.t = "int"
    /\ TargetIter(line') # 0
    /\ SourceLen(heap[TargetIter(line')].r) = 0
    /\ ~iterlog[TargetIter(line')].asked

C11_EmptyIteratorDone ==
    [][FirstBatchOfEmpty =>
          /\ out'[1].kind = "ok"
          /\ out'[1].value = [kind |-> "list", items |-> <<>>]
          /\ out'[1].meta.done]_vars

\* ------------------------------------------------- C12
\* C12: an ok response to iter_next_batch carries at most B items, B being the
\* request's batch_size, or 1000 when the request has none; a response with
\* meta.done = false carries exactly B items.
BatchAnswered == Answered /\ Req.cmd = "iter_next_batch" /\ Resp.kind = "ok"

B == IF Req.batch_size = Absent THEN DefaultBatch ELSE Req.batch_size.v

C12_BatchBound_Original ==
    BatchAnswered =>
        /\ Len(Resp.value.items) <= B
        /\ ~Resp.meta.done => Len(Resp.value.items) = B

\* C12 (amended): the same with a negative batch_size counted as zero: the loop runs
\* max(B, 0) times.
Rounds == IF B < 0 THEN 0 ELSE B

C12_BatchBound ==
    BatchAnswered =>
        /\ Len(Resp.value.items) <= Rounds
        /\ ~Resp.meta.done => Len(Resp.value.items) = Rounds

\* a full batch that is not the last one
C12_Witness ==
    /\ BatchAnswered
    /\ B = 1
    /\ ~Resp.meta.done
    /\ Len(Resp.value.items) = 1

\* ------------------------------------------------- C13
\* C13: a slice request whose step is 0, inline or as a handle that converts to 0, is
\* answered with an error of code PythonException, py_type ValueError and the message
\* "slice step cannot be zero", and the target is not indexed, whatever the target,
\* start and stop of the request are.
StepZero == Answered /\ Req.cmd = "slice" /\ HasFields(Req) /\ ZeroStep(SESSIONS, Req)

StepZeroAnswer ==
    /\ Resp.kind = "error"
    /\ Resp.error.code = "PythonException"
    /\ Resp.error.py_type = "ValueError"
    /\ Resp.error.message = "slice step cannot be zero"
    /\ \A e \in reflect : e.op # "index"

C13_StepZero_Original == StepZero => StepZeroAnswer

\* C13 (amended): the same for the requests whose start and stop the worker can
\* decode: inline values, or live handles of objects int() converts.
C13_StepZero ==
    /\ StepZero
    /\ GoodBound(SESSIONS, Req, Req.start)
    /\ GoodBound(SESSIONS, Req, Req.stop)
    => StepZeroAnswer

\* a zero step given as a handle, on a target that is not live
C13_Witness ==
    /\ StepZero
    /\ Req.step.kind = "handle"
    /\ Req.target.t = "str"
    /\ ~LiveIn(SESSIONS, Req.session_id, Req.target.v)
    /\ StepZeroAnswer

\* ------------------------------------------------- C14
\* C14: for a value v that is None, a bool, a number, a string, or a list, tuple or
\* dict of such values to any depth, decode_value(encode_value(v, s), s) returns v (a
\* list as a list, a tuple as a tuple, a dict with the same pairs), and neither call
\* adds a handle to the store or draws an id.
C14_InlineRoundTrip ==
    [][/\ pc' \in {"decode", "decoded"} =>
            /\ HandleMaps(SESSIONS') = HandleMaps(SESSIONS)
            /\ uuid' = uuid
       /\ pc' = "decoded" => ret' = [exc |-> "", val |-> arg.v]]_vars

\* a dict of two entries, a tuple for a key and a list for a value, has made the
\* round trip in a store that holds an object
C14_Witness ==
    /\ pc = "decoded"
    /\ ret.exc = ""
    /\ arg.v.t = "dict" /\ Len(arg.v.items) = 2
    /\ arg.v.items[1].key.t = "tuple"
    /\ arg.v.items[1].value.t = "list"
    /\ tnk.kind = "dict"
    /\ SESSIONS # EmptyMap

\* ------------------------------------------------- C15
\* C15: the value of an ok response is a tree whose nodes have kind value (None, a
\* bool, a number or a string), list, tuple, dict or handle, and the id of each handle
\* in it is, when the response is written, in the handle map of the request's session
\* and bound there to the object the handle describes.
RECURSIVE Nodes(_)
\* the nodes of an encoded value
Nodes(v) ==
    {v} \cup
    (CASE v.kind \in {"list", "tuple"} -> UNION {Nodes(v.items[i]) : i \in 1..Len(v.items)}
       [] v.kind = "dict" ->
            UNION {Nodes(v.items[i].key) \cup Nodes(v.items[i].value) : i \in 1..Len(v.items)}
       [] OTHER -> {})

WireNode(n) ==
    \/ n.kind = "value" /\ n.value.t \in {"none", "bool", "int", "float", "str"}
    \/ n.kind \in {"list", "tuple", "dict", "handle"}

\* handle n names an entry of session s that holds the object it describes
BoundIn(S, H, s, n) ==
    /\ LiveIn(S, s, n.id)
    /\ n.type = TypeName(Objects(S, s)[n.id])
    /\ Truncated(n.repr) = Truncated(repr(H, Objects(S, s)[n.id]))

C15_ResponseValues ==
    Answered /\ Resp.kind = "ok" =>
        \A n \in Nodes(Resp.value) :
            /\ WireNode(n)
            /\ n.kind = "handle" => BoundIn(SESSIONS, heap, Req.session_id, n)

\* a call has returned an object: the response carries a handle of the second session
C15_Witness ==
    /\ Answered /\ Resp.kind = "ok"
    /\ Req.cmd = "call_function"
    /\ Req.session_id = "s2"
    /\ Resp.value.kind = "handle"
    /\ BoundIn(SESSIONS, heap, "s2", Resp.value)

C17_SessionPartition ==
    [][pc' = "written" /\ line'.kind = "object" =>
          \A s \in Sids \ {line'.cmd.session_id} :
              Objects(SESSIONS', s) = Objects(SESSIONS, s)]_vars

\* a delete of the second session names an id the first session holds, and still holds
C17_Witness ==
    /\ Answered /\ Req.cmd = "delete" /\ Resp.kind = "ok"
    /\ Req.session_id = "s2"
    /\ Req.target.t = "str"
    /\ LiveIn(SESSIONS, "s1", Req.target.v)

\* ------------------------------------------------- C18
\* C18: an error response written while call_function, call_method, get_attribute,
\* get_item, slice, iter or iter_next_batch is handled carries error.op: its cmd and
\* target are the request's, and its other fields are the request's raw method,
\* name, key, start, stop, step, batch_size, args and kwargs (a request that leaves
\* kwargs or batch_size out being echoed with the value the handler assumed).
\* The requests are those with all their keys and a string for a target.
OpCmds == {"call_function", "call_method", "get_attribute", "get_item", "slice",
           "iter", "iter_next_batch"}

\* the operation record the request cmd is to be echoed with
Echo(cmd) ==
    LET base == [cmd |-> cmd.cmd, target |-> cmd.target]
    IN  CASE cmd.cmd = "call_function" ->
               [cmd |-> cmd.cmd, target |-> cmd.target, args |-> cmd.args,
                kwargs |-> IF cmd.kwargs = Absent THEN <<>> ELSE cmd.kwargs.items]
          [] cmd.cmd = "call_method" ->
               [cmd |-> cmd.cmd, target |-> cmd.target, method |-> cmd.method,
                args |-> cmd.args,
                kwargs |-> IF cmd.kwargs = Absent THEN <<>> ELSE cmd.kwargs.items]
          [] cmd.cmd = "get_attribute" ->
               [cmd |-> cmd.cmd, target |-> cmd.target, name |-> cmd.name]
          [] cmd.cmd = "get_item" ->
               [cmd |-> cmd.cmd, target |-> cmd.target, key |-> cmd.key]
          [] cmd.cmd = "slice" ->
               [cmd |-> cmd.cmd, target |-> cmd.target, start |-> cmd.start,
                stop |-> cmd.stop, step |-> cmd.step]
          [] cmd.cmd = "iter" -> base
          [] cmd.cmd = "iter_next_batch" ->
               [cmd |-> cmd.cmd, target |-> cmd.target,
                batch_size |-> IF cmd.batch_size = Absent THEN PyInt(DefaultBatch)
                               ELSE cmd.batch_size]

C18_ErrorEchoesOperation ==
    /\ Answered /\ Req.cmd \in OpCmds /\ HasFields(Req)
    /\ Req.target.t = "str"
    /\ Resp.kind = "error"
    => Resp.error.op = Echo(Req)

\* ------------------------------------------------- C19
\* C19: every response has kind ok or error; an error response carries one of the
\* codes SecurityViolation, StaleHandle, ProtocolError, TypeMismatch,
\* PythonException and WorkerCrash; an ok response has no error field.
ErrorCodes == {"SecurityViolation", "StaleHandle", "ProtocolError", "TypeMismatch",
               "PythonException", "WorkerCrash"}

C19_ResponseShape ==
    \A i \in 1..Len(out) :
        /\ out[i].kind \in {"ok", "error"}
        /\ out[i].kind = "error" => out[i].error.code \in ErrorCodes
        /\ out[i].kind = "ok" => "error" \notin DOMAIN out[i]

\* a delete has been answered ok
C19_Witness ==
    /\ Answered /\ Req.cmd = "delete"
    /\ Resp.kind = "ok"
    /\ DOMAIN Resp = {"kind", "req_id", "value", "meta"}

\* ------------------------------------------------- C20
\* C20: every handle record in a response, for an encoded object and for the iterator
\* iter creates, has a repr of at most 200 characters, a str field, the simple name
\* of the object's class as type, and the session_id of the request it answers.
C20_HandleRecords ==
    Answered /\ Resp.kind = "ok" =>
        \A n \in Nodes(Resp.value) :
            n.kind = "handle" =>
                /\ Len(n.repr) <= ReprLimit
                /\ "str" \in DOMAIN n
                /\ LiveIn(SESSIONS, Req.session_id, n.id)
                /\ n.type = TypeName(Objects(SESSIONS, Req.session_id)[n.id])
                /\ n.session_id = Req.session_id

\* ------------------------------------------------- C21
\* C21: in the handle store of bridge/worker.py every handle store_object has
\* returned resolves through get_object to the very object it was issued for,
\* and no two store_object calls returned the same id.
C21_LegacyHandles ==
    /\ \A i \in 1..Len(stored) :
          get_object(_objects, stored[i].handle) = [exc |-> "", val |-> stored[i].obj]
    /\ \A i \in 1..Len(stored) : \A j \in 1..Len(stored) :
          i # j => HandleId(stored[i].handle) # HandleId(stored[j].handle)

\* one object stored twice holds two ids, and the first still resolves to it
C21_Witness ==
    /\ Len(stored) >= 2
    /\ stored[1].obj = stored[2].obj
    /\ done.op = "get_object" /\ done.arg = stored[1].handle
    /\ done.exc = "" /\ done.val = stored[1].obj

\* ------------------------------------------------- C22
Scalar(v) == v.t \in {"none", "bool", "int", "float", "str"}

\* the step was a call serialize_result(done'.arg)
Serialized == done'.op = "serialize_result"

\* the result came back as it was and the store is as before
Unchanged == done'.exc = "" /\ done'.val = done'.arg /\ _objects' = _objects

\* the result was stored under a new id and its handle came back
AsHandle ==
    /\ done'.exc = ""
    /\ HandleId(done'.val) \notin DOMAIN _objects
    /\ done'.val = Handle(HandleId(done'.val))
    /\ get_object(_objects', done'.val) = [exc |-> "", val |-> done'.arg]

\* what serialize_result turns into another value when its library is there
Converted(site, v) ==
    \/ "numpy" \in site /\ v.t \in {"ndarray", "np.integer"}
    \/ "pandas" \in site /\ v.t = "Series"

C23_Deterministic ==
    \A i \in 1..Len(compiled) : \A j \in 1..Len(compiled) :
        /\ compiled[i].op = "compile" /\ compiled[j].op = "compile"
        /\ compiled[i].node = compiled[j].node
        => /\ compiled[i].text = compiled[j].text
           /\ compiled[i].exc = compiled[j].exc

\* ------------------------------------------------- C24
\* the class that stands for calls of the builtin of that name
Specialized(id) ==
    CASE id = "print" -> "TsuchinokoPrint" [] id = "list" -> "TsuchinokoCallList"
      [] id = "len" -> "TsuchinokoCallLen" [] id = "range" -> "TsuchinokoCallRange"

\* C24: match_node returns an instance of the first class of NODE_CLASSES whose
\* matches() accepts the node (None when no class does), and a call of the name
\* print, list, len or range gets its own class, never TsuchinokoCall.
C24_MatchOrder ==
    \A i \in 1..Len(compiled) :
        LET e == compiled[i]
            accepting == {k \in 1..Len(NODE_CLASSES) : matches(NODE_CLASSES[k], e.node)}
        IN  /\ e.cls = "None" <=> accepting = {}
            /\ e.cls # "None" =>
                 \E k \in accepting : /\ NODE_CLASSES[k] = e.cls
                                      /\ \A j \in accepting : k <= j
            /\ /\ e.node.t = "Call" /\ e.node.func.t = "Name"
               /\ e.node.func.id \in {"print", "list", "len", "range"}
               => e.cls = Specialized(e.node.func.id)

\* range(x) went to TsuchinokoCallRange, the last class of the list, and f(x)
\* to TsuchinokoCall
C24_Witness ==
    /\ Len(compiled) = 2
    /\ compiled[1].node = ast_Call(ast_Name("range"), <<ast_Name("x")>>)
    /\ compiled[1].cls = "TsuchinokoCallRange"
    /\ compiled[2].node = ast_Call(ast_Name("f"), <<ast_Name("x")>>)
    /\ compiled[2].cls = "TsuchinokoCall"

\* ------------------------------------------------- C25
\* the statement is the main guard
IsGuard(stmt) == stmt.t = "If" /\ stmt.test.t = "Compare" /\ IsMainGuard(stmt)

\* the top-level statements that are neither a function definition nor the guard
Setups(tree) == SelectSeq(tree.body, LAMBDA x : x.t # "FunctionDef" /\ ~IsGuard(x))

\* the setup function that holds the statements xs in that order; none of the
\* statements of Sources carries a node_id into its text
SetupOf(xs) ==
    "fn setup() {\n"
    \o Join("\n", [i \in 1..Len(xs) |->
                      emit_statement([n |-> 0, dv |-> {}, log |-> <<>>, tree |-> EmptyMap, sp |-> PyNone],
                                     xs[i], 1).text])
    \o "\n}"

\* C25: for a module with a main guard and top-level statements that are neither
\* function definitions nor the guard, wherever they stand, the output holds a
\* setup function with all of them in source order and main calls setup() first.
C25_SetupBeforeMain ==
    \A i \in 1..Len(compiled) :
        LET e == compiled[i]
        IN  /\ e.op = "compile"
            /\ \E k \in 1..Len(e.node.body) : IsGuard(e.node.body[k])
            /\ Setups(e.node) # <<>>
            => /\ e.exc = ""
               /\ In(SetupOf(Setups(e.node)), e.text)
               /\ In("fn main() {\n    setup();\n", e.text)

\* ------------------------------------------------- C26
\* the operands of a comparison, the left one first
Operands(node) == <<node.left>> \o node.comparators

\* C26: a chained comparison e0 op1 e1 ... opk ek is emitted as the && conjunction
\* of the adjacent pairs (e0 op1 e1), (e1 op2 e2), ..., in that order.  Stated for
\* constant operands, whose text is the constant.
C26_ChainedComparison ==
    \A i \in 1..Len(compiled) :
        LET e == compiled[i]
        IN  /\ e.op = "match" /\ e.node.t = "Compare"
            /\ \A k \in 1..Len(Operands(e.node)) : Operands(e.node)[k].t = "Constant"
            => e.text = Join(" && ",
                   [k \in 1..Len(e.node.ops) |->
                       ConstStr(Operands(e.node)[k].value) \o " "
                       \o CmpOperator(e.node.ops[k]) \o " "
                       \o ConstStr(Operands(e.node)[k + 1].value)])

\* ------------------------------------------------- C27
\* the nodes a node holds
Kids(node) ==
    CASE node.t \in {"Module", "FunctionDef"} -> node.body
      [] node.t = "Assign"    -> node.targets \o <<node.value>>
      [] node.t = "Expr"      -> <<node.value>>
      [] node.t = "Call"      -> <<node.func>> \o node.args
      [] node.t = "For"       -> <<node.target, node.iter>> \o node.body
      [] node.t \in {"If", "While"} -> <<node.test>> \o node.body \o node.orelse
      [] node.t = "Return"    -> IF node.value = Missing THEN <<>> ELSE <<node.value>>
      [] node.t = "Compare"   -> <<node.left>> \o node.comparators
      [] node.t = "BinOp"     -> <<node.left, node.right>>
      [] node.t \in {"Tuple", "List"} -> node.elts
      [] node.t = "Subscript" -> <<node.value, node.slice>>
      [] node.t = "Attribute" -> <<node.value>>
      [] node.t = "UnaryOp"   -> <<node.operand>>
      [] OTHER -> <<>>

RECURSIVE Within(_)
\* the node and every node below it
Within(node) == {node} \cup UNION {Within(Kids(node)[k]) : k \in 1..Len(Kids(node))}

\* the construct is outside what the compiler supports
Unsupported(node) ==
    \/ \A k \in 1..Len(NODE_CLASSES) : ~matches(NODE_CLASSES[k], node)
    \/ node.t = "BinOp" /\ BinOperator(node.op) = "?"
    \/ node.t = "Compare" /\ \E k \in 1..Len(node.ops) : CmpOperator(node.ops[k]) = "?"

\* C27: for a tree that holds a node no class accepts or an operator outside the
\* operator tables the compiler reports a diagnostic, puts no placeholder into the
\* output and does not abort with an exception.
C27_UnsupportedReported ==
    \A i \in 1..Len(compiled) :
        LET e == compiled[i]
        IN  (\E x \in Within(e.node) : Unsupported(x))
            => /\ e.exc = ""
               /\ e.log # <<>>
               /\ ~In("?", e.text)

\* ------------------------------------------------- C28
\* the iterator handles of session s: the ids iter requests returned
IterHandles(S, s) == {id \in DOMAIN Objects(S, s) : \E k \in 1..Len(ItTok) : id = ItId(k)}

\* what later iter_next_batch requests on handle id will return: the state of the
\* iterator object the handle is bound to
Pending(S, H, s, id) == H[Objects(S, s)[id].a]

\* an iter_next_batch request on handle x of session s has just been handled
NextBatchOn(s, x) ==
    /\ pc = "read" /\ pc' = "written"
    /\ line'.kind = "object"
    /\ line'.cmd.cmd = "iter_next_batch"
    /\ line'.cmd.session_id = s
    /\ line'.cmd.target = Target(x)

\* C28: iterator state is per handle: for two distinct iterator handles that iter
\* requests returned in a session, iter_next_batch on one leaves unchanged the items
\* that later iter_next_batch requests on the other return, whatever the target of
\* each iter request was (an iterable, or a handle that is itself an iterator).
C28_PerHandleState ==
    [][\A x, y \in IterHandles(SESSIONS, "s1") :
          x # y /\ NextBatchOn("s1", x)
          => Pending(SESSIONS', heap', "s1", y) = Pending(SESSIONS, heap, "s1", y)]_vars

\* ------------------------------------------------- C29
\* a bound of the request is neither an inline integer or null nor a handle of an
\* object that converts to an integer
BadBound(S, cmd) == \E b \in {cmd.start, cmd.stop, cmd.step} : ~GoodBound(S, cmd, b)

\* C29: a slice request whose start, stop or step is neither an inline integer (or
\* null) nor a handle convertible to an integer is answered with code TypeMismatch,
\* and the target object is not indexed: the bounds are checked before the target's
\* liveness is.
C29_BoundsChecked ==
    /\ Answered /\ Req.cmd = "slice" /\ HasFields(Req)
    /\ BadBound(SESSIONS, Req)
    => /\ Resp.kind = "error"
       /\ Resp.error.code = "TypeMismatch"
       /\ \A e \in reflect : e.op # "index"

\* ------------------------------------------------- C30
\* the object the attributes parts[i..] lead to from obj, Missing when one is absent
RECURSIVE Follows(_, _, _)
Follows(obj, parts, i) ==
    IF obj = Missing \/ i > Len(parts) THEN obj
    ELSE Follows(AttrOf(obj, parts[i]), parts, i + 1)

\* importlib.import_module(name) on its own
ImportOf(name) == import_module([S |-> EmptyMap, H |-> <<>>, U |-> 0, E |-> {}], name)

\* what "import the shortest prefix that imports, then follow the attributes" finds:
\* a longer prefix imports only if the first component does
ByImport(parts) ==
    IF ImportOf(parts[1]).exc = "" THEN Follows(ImportOf(parts[1]).val, parts, 2)
    ELSE Missing

\* the same, with a first component that fails with an ImportError looked up in builtins
ByImportOrBuiltins(parts) ==
    IF ImportOf(parts[1]).exc = "" THEN Follows(ImportOf(parts[1]).val, parts, 2)
    ELSE IF IsImportError(ImportOf(parts[1]).exc)
    THEN Follows(AttrOf(PyModule("builtins"), parts[1]), parts, 2)
    ELSE Missing

\* the exception type a failed resolution reports
FailureType(parts) ==
    IF ImportOf(parts[1]).exc = "" THEN "AttributeError"
    ELSE IF ~IsImportError(ImportOf(parts[1]).exc) THEN ImportOf(parts[1]).exc
    ELSE IF AttrOf(PyModule("builtins"), parts[1]) = Missing THEN "ImportError"
    ELSE "AttributeError"

\* main has just answered a call_function request with a string target
CallFunctionOfString ==
    /\ pc = "read" /\ pc' = "written"
    /\ line'.kind = "object"
    /\ line'.cmd.cmd = "call_function"
    /\ HasFields(line'.cmd)
    /\ line'.cmd.target.t = "str"

\* the request got as far as resolving its target
Resolving ==
    /\ CallFunctionOfString
    /\ ~is_forbidden_target(line'.cmd.target.v)
    /\ \E e \in reflect' : e.op = "import"

NothingInvoked == \A e \in reflect' : e.op # "call"

NoHandleCreated ==
    /\ uuid' = uuid
    /\ \A s \in DOMAIN SESSIONS' : Objects(SESSIONS', s) = Objects(SESSIONS, s)

\* C30 (as stated): call_function imports the shortest importable prefix of a dotted
\* string target and follows the rest by attribute access; a target for which this
\* fails is answered PythonException with py_type ImportError or AttributeError,
\* nothing is invoked and no handle is created.
C30_Resolution_Original ==
    [][CallFunctionOfString /\ ByImport(split(line'.cmd.target.v)) = Missing
       => /\ out'[1].kind = "error"
          /\ out'[1].error.code = "PythonException"
          /\ out'[1].error.py_type \in {"ImportError", "AttributeError"}
          /\ NothingInvoked
          /\ NoHandleCreated]_vars

\* C30 (amended): once the arguments are decoded and the target is not forbidden,
\* the first component is imported, or taken from builtins when the import fails
\* with an ImportError and builtins has the name, and the rest is followed by
\* attribute access; what that finds is invoked, and a target for which it fails is
\* answered PythonException with the type of the failure (ImportError,
\* AttributeError, or the ValueError of an empty first component), nothing is
\* invoked and no handle is created.
C30_Resolution ==
    [][Resolving
       => LET parts == split(line'.cmd.target.v)
          IN  IF ByImportOrBuiltins(parts) = Missing
              THEN /\ out'[1].kind = "error"
                   /\ out'[1].error.code = "PythonException"
                   /\ out'[1].error.py_type = FailureType(parts)
                   /\ NothingInvoked
                   /\ NoHandleCreated
              ELSE ~NothingInvoked]_vars

\* a target whose first component imports and whose attribute is missing was answered
C30_Witness ==
    /\ Answered /\ Req.cmd = "call_function"
    /\ Req.target = PyStr(Dotted("builtins", "nosuch"))
    /\ Resp.kind = "error"
    /\ Resp.error.py_type = "AttributeError"

\* ------------------------------------------------- C31
\* main has just handled a delete request that names a session and an id
DeleteOfId ==
    /\ pc = "read" /\ pc' = "written"
    /\ line'.kind = "object"
    /\ line'.cmd.cmd = "delete"
    /\ HasFields(line'.cmd)
    /\ line'.cmd.target.t = "str"

\* map M without the id
Less(M, id) == [k \in DOMAIN M \ {id} |-> M[k]]

\* C31: delete is the only command that removes handles: a delete request removes
\* exactly its target id from the map of its session and nothing else, is answered
\* ok with a null value whether or not the id was present, and no step of another
\* command removes an entry from the map of any session.
C31_OnlyDeleteRemoves ==
    [][IF DeleteOfId
       THEN /\ out'[1].kind = "ok"
            /\ out'[1].value = [kind |-> "value", value |-> PyNone]
            /\ \A s \in DOMAIN SESSIONS' :
                  Objects(SESSIONS', s) =
                     IF s = line'.cmd.session_id
                     THEN Less(Objects(SESSIONS, s), line'.cmd.target.v)
                     ELSE Objects(SESSIONS, s)
       ELSE \A s \in DOMAIN SESSIONS :
               DOMAIN Objects(SESSIONS, s) \subseteq DOMAIN Objects(SESSIONS', s)]_vars

\* a delete of an id that was issued in the session has been answered: the id is gone
\* while another id of the session is still held
C31_Witness ==
    /\ Answered /\ Req.cmd = "delete" /\ HasFields(Req) /\ Req.target.t = "str"
    /\ Req.target.v \in DOMAIN issued
    /\ issued[Req.target.v] = Req.session_id
    /\ ~LiveIn(SESSIONS, Req.session_id, Req.target.v)
    /\ DOMAIN Objects(SESSIONS, Req.session_id) # {}
    /\ Resp.kind = "ok"

\* ------------------------------------------------- C32
\* the objects with an identity of their own: two handles hold the same one exactly
\* when they hold the same heap address
HasIdentity(obj) == obj.t \in {"iter", "repeat", "chain"}

\* the ids of session s that hold the object obj
HeldAs(S, s, obj) == {k \in DOMAIN Objects(S, s) : Objects(S, s)[k] = obj}

\* main has just answered a request of session s with a handle
AnsweredHandle(s) ==
    /\ pc = "read" /\ pc' = "written"
    /\ line'.kind = "object" /\ line'.cmd.session_id = s
    /\ out'[1].kind = "ok"
    /\ out'[1].value.kind = "handle"

CarriesOp(r) == r.kind = "error" /\ r.error.op # PyNone

\* make_response has returned
Responded == pc = "responded"

\* C33 (as stated): error.op is attached exactly when make_response is given both an
\* error and op_info; an error given without op_info carries no op, and an ok
\* response never carries op and ignores the op_info passed to it.
C33_ErrorOp_Original ==
    Responded =>
      /\ CarriesOp(ret) <=> (arg.error # PyNone /\ arg.op_info # PyNone)
      /\ arg.error # PyNone /\ arg.op_info = PyNone =>
            ret = [kind |-> "error", req_id |-> arg.req_id, error |-> arg.error]
      /\ arg.error = PyNone =>
            ret = [kind |-> "ok", req_id |-> arg.req_id, value |-> arg.value,
                   meta |-> arg.meta]

\* C33 (amended): the same with "given" read as Python reads `if error:` and
\* `if op_info:`: an argument that is None or an empty dict counts as not given.
C33_ErrorOp ==
    Responded =>
      /\ CarriesOp(ret) <=> (Truthy(arg.error) /\ Truthy(arg.op_info))
      /\ CarriesOp(ret) => ret.error = [arg.error EXCEPT !.op = arg.op_info]
      /\ Truthy(arg.error) /\ ~Truthy(arg.op_info) =>
            ret = [kind |-> "error", req_id |-> arg.req_id, error |-> arg.error]
      /\ ~Truthy(arg.error) =>
            ret = [kind |-> "ok", req_id |-> arg.req_id, value |-> arg.value,
                   meta |-> arg.meta]

\* an error and op_info were given, and the response carries the op
C33_Witness ==
    /\ Responded
    /\ arg.error = Err("TestError", "", "test")
    /\ arg.op_info # PyNone /\ arg.op_info # PyDict(<<>>)
    /\ ret.kind = "error" /\ ret.error.op = arg.op_info

\* ------------------------------------------------- C34
\* the handle ids in an encoded value
RECURSIVE HandleIds(_)
HandleIds(v) ==
    CASE v.kind = "handle" -> {v.id}
      [] v.kind \in {"list", "tuple"} ->
           UNION {HandleIds(v.items[i]) : i \in 1..Len(v.items)}
      [] v.kind = "dict" ->
           UNION {HandleIds(v.items[i].key) \cup HandleIds(v.items[i].value) :
                    i \in 1..Len(v.items)}
      [] OTHER -> {}

\* the ids the response r delivers to the client
Delivered(r) == IF r.kind = "ok" THEN HandleIds(r.value) ELSE {}

\* C34: errors are atomic with respect to the store: a request answered with
\* kind=error leaves the handle map of every session as it was, no handle added,
\* removed or rebound, so that every id that enters the store is delivered to the
\* client in the ok response of the request that stored it.
C34_ErrorsAtomic ==
    [][pc = "read" /\ pc' = "written" =>
          /\ out'[1].kind = "error" =>
                \A s \in DOMAIN SESSIONS' : Objects(SESSIONS', s) = Objects(SESSIONS, s)
          /\ \A s \in DOMAIN SESSIONS' :
                DOMAIN Objects(SESSIONS', s) \ DOMAIN Objects(SESSIONS, s)
                   \subseteq Delivered(out'[1])]_vars


\* ------------------------------------------------- C35
\* the batch_size of the request the client repeats, 1000 when it has none
DrainB == IF arg.batch_size = Absent THEN PyInt(DefaultBatch) ELSE arg.batch_size

\* C35: iteration terminates: for every batch_size that the worker accepts
\* without an error response, a client that repeats iter_next_batch on an
\* iterator over a finite sequence until it sees meta.done = true does see it:
\* the loop ends, on done or on an error response.
C35_Terminates_Original == <>(pc \in {"drained", "failed"})

\* C35 (amended): the same for every batch_size of at least 1 (the default
\* included): the client sees meta.done = true after finitely many calls.
C35_Terminates ==
    (DrainB.t = "int" /\ DrainB.v >= 1) => <>(pc = "drained")

\* the client has left its loop on done after three calls of batch_size 1
C35_Witness ==
    /\ pc = "drained"
    /\ arg.batch_size = PyInt(1)
    /\ Len(iterlog[1].items) = 2


\* ------------------------------------------------- C36
\* the request on the line is cmd in session s1 on the exhausted iterator's handle
OnExhausted(l, c) ==
    /\ l.kind = "object"
    /\ l.cmd.cmd = c
    /\ l.cmd.session_id = "s1"
    /\ l.cmd.target = Target(ItId(2))

\* C36: exhaustion does not release an iterator: after a response with
\* meta.done = true the iterator's handle stays in the map of its session, bound
\* to the same object, and every further iter_next_batch on it with a batch_size
\* of at least 1 is answered ok with no items and meta.done = true, until a
\* delete request removes the handle.
C36_ExhaustedStays ==
    /\ ItId(2) \in DOMAIN Objects(SESSIONS, "s1")      \* when done has just been reported
    /\ [][pc = "read" /\ pc' = "written" /\ ItId(2) \in DOMAIN Objects(SESSIONS, "s1") =>
             /\ ~OnExhausted(line', "delete") =>
                   /\ ItId(2) \in DOMAIN Objects(SESSIONS', "s1")
                   /\ SESSIONS'["s1"].objects[ItId(2)] = SESSIONS["s1"].objects[ItId(2)]
             /\ OnExhausted(line', "iter_next_batch") =>
                   /\ out'[1].kind = "ok"
                   /\ out'[1].value.items = <<>>
                   /\ out'[1].meta.done]_vars

\* a further iter_next_batch on the exhausted iterator has been answered, after
\* a delete request in another session
C36_Witness ==
    /\ pc = "written"
    /\ OnExhausted(line, "iter_next_batch")
    /\ line.cmd.batch_size = PyInt(1)
    /\ "s2" \in DOMAIN SESSIONS
    /\ out[1].kind = "ok" /\ out[1].meta.done


\* ------------------------------------------------- C37
\* the handle value that was decoded, and what stands for the object in the result
DecodedHandle == IF tnk.kind = "handle" THEN tnk ELSE tnk.items[1]
DecodedObject == IF tnk.kind = "handle" THEN ret.val ELSE ret.val.items[1]

\* C37: decode_value resolves a handle value by looking its id up in the handle
\* map of the request's session and nowhere else: an id that is live there
\* decodes to the object it is bound to there, whatever the session_id field of
\* the handle value says, and an id that is not live there is a KeyError, even
\* when the session the field names holds it.
C37_RequestSessionOnly ==
    pc = "decoded" =>
        IF DecodedHandle.id \in DOMAIN Objects(SESSIONS, arg.session_id)
        THEN /\ ret.exc = ""
             /\ DecodedObject = SESSIONS[arg.session_id].objects[DecodedHandle.id]
        ELSE ret.exc = "KeyError"

\* a handle value that names another session has been decoded to the object
\* of the request's session
C37_Witness ==
    /\ pc = "decoded"
    /\ arg.session_id = "s1"
    /\ tnk.kind = "handle" /\ tnk.session_id = "s2"
    /\ tnk.id \in DOMAIN SESSIONS["s1"].objects
    /\ ret.exc = "" /\ ret.val = SESSIONS["s1"].objects[tnk.id]


\* ------------------------------------------------- C38
\* the id a response to line l has to carry: the request's id, null when the
\* request has none or the line is no JSON
IdOf(l) ==
    IF l.kind = "object" /\ l.cmd.id # Absent THEN l.cmd.id ELSE PyNone

IsShutdown(l) == l.kind = "object" /\ l.cmd.op = "shutdown"

\* C38: the main loop of the legacy worker answers every non-empty line it
\* reads with exactly one response that carries the request's id (null when
\* the line is not valid JSON); a shutdown request is answered with ok = true
\* and result "shutdown" and ends the loop; once the loop has ended no line is
\* read or answered.
C38_LegacyLoop ==
    [][IF pc = "read"
       THEN line'.kind \notin {"none", "blank"} =>
               /\ Len(out') = 1
               /\ out'[1].id = IdOf(line')
               /\ IsShutdown(line') =>
                     /\ out'[1] = [id |-> IdOf(line'), ok |-> TRUE,
                                   result |-> PyStr(<<"shutdown">>)]
                     /\ pc' = "exited"
               /\ ~IsShutdown(line') => pc' = "read"
       ELSE FALSE]_vars


\* ------------------------------------------------- C39
\* every node so far has its own id, and its parent is None or a node made before it
Forest ==
    /\ DOMAIN scope_tree = 0..(id_counter - 1)
    /\ \A id \in DOMAIN scope_tree :
          \/ scope_tree[id] = PyNone
          \/ scope_tree[id].t = "int" /\ scope_tree[id].v \in 0..(id - 1)

\* C39: the scope tree is a forest: every node gets a node_id distinct from all
\* earlier ones, scope_tree maps each node_id to None or to the id of a node
\* created before it, and the ancestor walk of where_declared from any node
\* ends after finitely many steps, with the declaration it looked for or None.
C39_ScopeForest ==
    /\ Forest
    /\ ret # NoCall => ret.exc = ""

====
